---- MODULE Spec2Model ----
(***************************************************************************)
(* The inode graph of pathfs (rawBridge): the nodes map, the per-inode     *)
(* mutexes, the bridge mutex, and the lifecycle operations addChild,       *)
(* removeRef, rmChild and mvChild, executed by goroutines that interleave  *)
(* at every mutex operation.                                               *)
(***************************************************************************)
EXTENDS Integers, Sequences, FiniteSets, TLC

\* ------------------------------------------------------------------ bounds
NThreads == 2
MaxObj == 4
MaxIno == 3
MaxForget == 2
MaxRecs == 1
MaxParents == 2
MaxRev == 1
MaxPath == 3
MaxTreeRecs == 2
MaxRand == 1
MaxFiles == 3
MaxFree == 3
MaxUFh == 1
MaxList == 1
MaxAdds == 3

\* ------------------------------------------------------- program constants
RootIno == 1
Nil == 0
CompactFactor == 100

Threads == 1..NThreads
Objs == 1..MaxObj
Inos == 1..MaxIno
Names == {"a", "b"}
VirtualNames == {".", ".."}

\* a test that lets every name through
NeverVirtual(name) == FALSE

\* the test of addChild on the name (lines 622-624)
IsVirtual(name) == name \in VirtualNames

\* ------------------------------------------------------------- parentEntry
ParentEntry(name, node) == [name |-> name, node |-> node]
NoEntry == [name |-> "", node |-> Nil]
EmptyMap == [x \in {} |-> Nil]

DropKey(f, k) == [x \in (DOMAIN f) \ {k} |-> f[x]]

\* ------------------------------------------------------------ inodeParents
NoParents == [newest |-> NoEntry, other |-> EmptyMap]

\* add that leaves a re-added entry in the other map
ParentsAddKeeping(p, n, stamp) ==
    IF p.newest.node = Nil THEN [p EXCEPT !.newest = n]
    ELSE IF p.newest = n THEN p
    ELSE [newest |-> n, other |-> (p.newest :> stamp) @@ p.other]

\* add: the stamp is the value of time.Now() at the call
ParentsAdd(p, n, stamp) ==
    LET p1 == IF p.newest.node = Nil THEN [p EXCEPT !.newest = n] ELSE p
    IN IF p1.newest = n
       THEN p1
       ELSE [newest |-> n,
             other  |-> DropKey((p1.newest :> stamp) @@ p1.other, n)]

\* whether add reads the clock (line 392)
ParentsDisplaces(p, n) == p.newest.node # Nil /\ p.newest # n

ParentsGet(p) == p.newest

ParentsCount(p) ==
    IF p.newest.node = Nil THEN 0 ELSE 1 + Cardinality(DOMAIN p.other)

\* the set of all entries
ParentsSet(p) ==
    IF ParentsCount(p) = 0 THEN {} ELSE {p.newest} \cup DOMAIN p.other

RECURSIVE SeqsOf(_)
SeqsOf(S) ==
    IF S = {} THEN {<< >>}
    ELSE UNION {{<<x>> \o s : s \in SeqsOf(S \ {x})} : x \in S}

\* all: newest first, then the other map in Go's unspecified iteration order
ParentsAll(p) ==
    IF ParentsCount(p) = 0 THEN {<< >>}
    ELSE {<<p.newest>> \o s : s \in SeqsOf(DOMAIN p.other)}

\* no delete was called
NoDelete == [done |-> FALSE, entry |-> NoEntry, before |-> NoParents]

\* a delete that promotes the entry displaced longest ago
ParentsDeleteOldest(p, n) ==
    IF p.newest.node = Nil THEN p
    ELSE IF p.newest # n THEN [p EXCEPT !.other = DropKey(@, n)]
    ELSE IF DOMAIN p.other = {} THEN [p EXCEPT !.newest = NoEntry]
    ELSE LET i == CHOOSE k \in DOMAIN p.other :
                     \A k2 \in DOMAIN p.other : p.other[k] <= p.other[k2]
         IN [newest |-> i, other |-> DropKey(p.other, i)]

\* delete: the loop keeps the entry with the greatest stamp that is after
\* the zero time (stamp 0); the variable i stays the zero entry otherwise
ParentsDelete(p, n) ==
    IF p.newest.node = Nil THEN p
    ELSE IF p.newest # n THEN [p EXCEPT !.other = DropKey(@, n)]
    ELSE IF DOMAIN p.other = {} THEN [p EXCEPT !.newest = NoEntry]
    ELSE LET cand == {k \in DOMAIN p.other :
                         /\ p.other[k] > 0
                         /\ \A k2 \in DOMAIN p.other : p.other[k2] <= p.other[k]}
             i == IF cand = {} THEN NoEntry ELSE CHOOSE k \in cand : TRUE
         IN [newest |-> i, other |-> DropKey(p.other, i)]

ParentsClear(p) == NoParents

\* ------------------------------------------------------------------- inode
NewInode(ino, isDir) ==
    [ino |-> ino, revision |-> 0, lookupCount |-> 0,
     parents |-> NoParents, children |-> EmptyMap, dir |-> isDir]

IsDir(nd) == nd.dir

IsLive(nd) == nd.lookupCount > 0 \/ Cardinality(DOMAIN nd.children) > 0

\* revision++ and lookupCount++ on a uint32: the wrap at 2^32 is beyond TLC's
\* integers and beyond every run of this model, whose counters stay below 10
Inc32(x) == x + 1

\* a lookup that ignores the name and takes any entry of the map
ChildOfAnyName(nd, name) ==
    IF DOMAIN nd.children = {} THEN Nil
    ELSE nd.children[CHOOSE k \in DOMAIN nd.children : TRUE]

\* children[name], nil when absent
Child(nd, name) == IF name \in DOMAIN nd.children THEN nd.children[name] ELSE Nil

\* ------------------------------------------------------------ lock helpers
NodeLess(a, b) == a < b

\* the mutexes lockNode2 locks, in the order it locks them
LockNode2(n1, n2) ==
    IF n1 = n2 THEN (IF n1 # Nil THEN <<n1>> ELSE << >>)
    ELSE IF NodeLess(n1, n2)
         THEN (IF n1 # Nil THEN <<n1>> ELSE << >>) \o (IF n2 # Nil THEN <<n2>> ELSE << >>)
         ELSE (IF n2 # Nil THEN <<n2>> ELSE << >>) \o (IF n1 # Nil THEN <<n1>> ELSE << >>)

\* the mutexes unlockNode2 calls mu.Lock() on, in order
UnlockNode2(n1, n2) ==
    IF n1 = n2 THEN (IF n1 # Nil THEN <<n1>> ELSE << >>)
    ELSE (IF n1 # Nil THEN <<n1>> ELSE << >>) \o (IF n2 # Nil THEN <<n2>> ELSE << >>)

RECURSIVE SortedSeq(_)
SortedSeq(S) ==
    IF S = {} THEN << >>
    ELSE LET m == CHOOSE x \in S : \A y \in S : ~NodeLess(y, x)
         IN <<m>> \o SortedSeq(S \ {m})

\* lockNodes: sorted by address, a node equal to the previous one (nil at
\* first) is skipped
LockNodes(ns) == SortedSeq(ns \ {Nil})

\* unlockNodes: the set of mutexes it unlocks
UnlockNodes(ns) == ns \ {Nil}

\* ------------------------------------------------------------------- state
VARIABLES
    heap,           \* address -> inode (the fields guarded by inode.mu)
    allocated,      \* addresses of the inode objects created so far
    root,           \* rawBridge.root
    nodes,          \* rawBridge.nodes: ino -> address, Nil when absent
    nodeCountHigh,  \* rawBridge.nodeCountHigh
    now,            \* the clock read by time.Now()
    mu,             \* inode.mu: the goroutine that locked it, 0 when unlocked
    bmu,            \* rawBridge.mu: the goroutine that locked it, 0 when unlocked
    stack,          \* per goroutine: the call frames, innermost last
    locking,        \* per goroutine: the mutexes its current lock call still has to lock
    status,         \* per goroutine: "run" or "panic"
    pre,            \* per goroutine: heap and nodes when its outermost call began
    last,           \* per goroutine: its last completed outermost call and result
    phase,          \* "new" after NewPathFS, "dumped" after Dump, "restoring"
                    \* between Restore and Finished, "serving" once requests
                    \* arrive, "failed" when Finished returned an error,
                    \* "panicked" when AddInode died
    nodeCount,      \* InodeRestorer.nodeCount
    addNodeCount,   \* InodeRestorer.addNodeCount
    err,            \* the error Finished returned, "" for nil
    sender,         \* the bridge Dump was called on: its heap and nodes
    stream,         \* InodeDumper: the inodes Next has still to yield
    files,          \* rawBridge.files: slot fh is files[fh + 1]
    freeFiles,      \* rawBridge.freeFiles
    held,           \* the handles registerFile returned and nobody released
    freed,          \* the handle of the last unregisterFile that freed a
                    \* slot, -1 once registerFile was called after it
    fop,            \* the last call on the file table and what it returned
    fpre,           \* the file table when that call began
    parents,        \* an inodeParents that add is called on
    addLog,         \* the entries passed to add, in the order of the calls
    lastDel,        \* the last delete on it since the last add: the entry
                    \* passed and the set before the call
    recLog          \* the records a restore has passed to AddInode, in the
                    \* order of the calls (kept by AddLoggedInode only)

vars == <<heap, allocated, root, nodes, nodeCountHigh, now, mu, bmu,
          stack, locking, status, pre, last, phase, nodeCount, addNodeCount,
          err, sender, stream, files, freeFiles, held, freed, fop, fpre,
          parents, addLog, lastDel, recLog>>

dumper == <<err, sender, stream>>

restorer == <<phase, nodeCount, addNodeCount, dumper>>

\* the file table, with the record of the last call on it
table == <<files, freeFiles, held, freed, fop, fpre>>

\* what the operations on the graph and on the file table leave alone
apart == <<parents, addLog, lastDel, recLog>>

Frame0 ==
    [fn |-> "", pc |-> "", parent |-> Nil, name |-> "", ino |-> 0,
     isDir |-> FALSE, child |-> Nil, n |-> Nil, nlookup |-> 0,
     rev |-> 0, nRev |-> 0, pes |-> << >>, newParent |-> Nil,
     newName |-> "", overwrite |-> FALSE, destChild |-> Nil,
     live |-> FALSE, newLive |-> FALSE,
     it |-> Nil, segments |-> << >>, removed |-> FALSE, code |-> FALSE,
     attrIno |-> 0, attrDir |-> FALSE,
     newIno |-> 0, flags |-> 0, errno |-> "", ret |-> ""]

NoCall == [call |-> Frame0, node |-> Nil, ok |-> FALSE, path |-> ""]

Top(t) == stack[t][Len(stack[t])]
Depth(t) == Len(stack[t])
Idle(t) == stack[t] = << >> /\ status[t] = "run"

\* the frame on top replaced / a callee pushed over it / the top popped
WithTop(t, f) == [stack EXCEPT ![t] = [@ EXCEPT ![Len(@)] = f]]
WithCall(t, f, g) == [stack EXCEPT ![t] = [@ EXCEPT ![Len(@)] = f] \o <<g>>]
Popped(t) == [stack EXCEPT ![t] = SubSeq(@, 1, Len(@) - 1)]

\* what a return leaves in `last`: only an outermost call is recorded
\* (node: the inode addChild returns; ok: the boolean the others return)
Returned(t, node, ok) ==
    IF Depth(t) = 1
    THEN [last EXCEPT ![t] = [call |-> Top(t), node |-> node, ok |-> ok,
                              path |-> ""]]
    ELSE last

\* the return of removeRef: the frame on top popped, and the boolean handed
\* to the caller, which only Forget reads (line 148)
PoppedRet(t, removed) ==
    LET d == Len(stack[t]) IN
    IF d > 1 /\ stack[t][d - 1].fn = "Forget"
    THEN [stack EXCEPT ![t] =
             [SubSeq(@, 1, d - 1) EXCEPT ![d - 1].removed = removed]]
    ELSE Popped(t)

RemoveRefFrame(n, nlookup) ==
    [Frame0 EXCEPT !.fn = "removeRef", !.pc = "entry", !.n = n, !.nlookup = nlookup]

\* ---------------------------------------------------------------- fileEntry
\* opener is left out: no operation reads it back; a nil stream is << >>
FileEntry(path, uFh, dirStream) ==
    [path |-> path, uFh |-> uFh, stream |-> dirStream]
ZeroEntry == FileEntry("", 0, << >>)

\* the record of a call on the file table
FileOp(op, fh, offset, called, code, entries) ==
    [op |-> op, fh |-> fh, offset |-> offset, called |-> called,
     code |-> code, entries |-> entries]
NoFileOp == FileOp("", 0, 0, FALSE, "OK", << >>)

\* NewPathFS: the root inode 1, a directory with lookupCount 1, alone in nodes
NewPathFS(r) ==
    /\ heap = [o \in Objs |->
                 IF o = r THEN [NewInode(RootIno, TRUE) EXCEPT !.lookupCount = 1]
                 ELSE NewInode(0, FALSE)]
    /\ allocated = {r}
    /\ root = r
    /\ nodes = [i \in Inos |-> IF i = RootIno THEN r ELSE Nil]
    /\ nodeCountHigh = 1
    /\ now = 1
    /\ mu = [o \in Objs |-> 0]
    /\ bmu = 0

\* no goroutine has started
Started ==
    /\ stack = [t \in Threads |-> << >>]
    /\ locking = [t \in Threads |-> << >>]
    /\ status = [t \in Threads |-> "run"]
    /\ pre = [t \in Threads |-> [heap |-> heap, nodes |-> nodes]]
    /\ last = [t \in Threads |-> NoCall]
    /\ phase = "new"
    /\ nodeCount = 0
    /\ addNodeCount = 0
    /\ err = ""
    /\ sender = [heap |-> << >>, nodes |-> << >>]
    /\ stream = {}
    /\ files = <<ZeroEntry>>
    /\ freeFiles = << >>
    /\ held = {}
    /\ freed = -1
    /\ fop = NoFileOp
    /\ fpre = [freeFiles |-> freeFiles, held |-> held, freed |-> freed,
               slots |-> Len(files), stream |-> << >>]
    /\ parents = NoParents
    /\ addLog = << >>
    /\ lastDel = NoDelete
    /\ recLog = << >>

\* the root inode at any address
Init == (\E r \in Objs : NewPathFS(r)) /\ Started

NodeCount == Cardinality({i \in Inos : nodes[i] # Nil})

\* the nodes a caller can name: the values of b.nodes (rawBridge.inode)
InNodes == {nodes[i] : i \in Inos} \ {Nil}
DirsInNodes == {o \in InNodes : IsDir(heap[o])}

\* ------------------------------------------------------- mutex acquisition
\* sync.Mutex.Lock: one pending mutex is locked once it is unlocked
Acquire(t) ==
    /\ status[t] = "run"
    /\ locking[t] # << >>
    /\ mu[Head(locking[t])] = 0
    /\ mu' = [mu EXCEPT ![Head(locking[t])] = t]
    /\ locking' = [locking EXCEPT ![t] = Tail(@)]
    /\ UNCHANGED <<heap, allocated, root, nodes, nodeCountHigh, now, bmu,
                   stack, status, pre, last, restorer, table, apart>>

\* a goroutine at a statement of function fn, not inside a Lock call
At(t, fn) ==
    /\ status[t] = "run"
    /\ stack[t] # << >>
    /\ locking[t] = << >>
    /\ Top(t).fn = fn

\* ---------------------------------------------------------------- addChild
\* an allocator that hands out addresses in use
AnyAddresses(al) == Objs

\* the addresses newInode can return: those of no inode created so far
FreeAddresses(al) == Objs \ al

\* an addChild that links the child under itself
AddChildUnderItself(h, parent, name, child, stamp) ==
    [h EXCEPT ![child].lookupCount = Inc32(@),
              ![child].revision = Inc32(Inc32(@)),
              ![child].children = (name :> child) @@ @,
              ![child].parents = ParentsAdd(@, ParentEntry(name, child), stamp)]

\* the graph after lines 658-669, child already locked
AddChildCommit(h, parent, name, child, stamp) ==
    LET h1 == [h EXCEPT ![child].lookupCount = Inc32(@),
                        ![child].revision = Inc32(@)]
        h2 == [h1 EXCEPT ![parent].children = (name :> child) @@ @]
        h3 == [h2 EXCEPT ![child].parents =
                              ParentsAdd(@, ParentEntry(name, parent), stamp)]
        h4 == [h3 EXCEPT ![parent].revision = Inc32(@)]
    IN [h4 EXCEPT ![child].revision = Inc32(@)]

AddChild(t) ==
    LET f == Top(t) IN
    /\ At(t, "addChild")
    /\ UNCHANGED <<restorer, table, apart>>
    /\ CASE f.pc = "entry" ->
            \* lines 622-624, then the first lockNode2 of the loop
            /\ IF IsVirtual(f.name)
               THEN /\ status' = [status EXCEPT ![t] = "panic"]
                    /\ UNCHANGED <<locking, stack>>
               ELSE /\ locking' = [locking EXCEPT ![t] = LockNode2(f.parent, f.child)]
                    /\ stack' = WithTop(t, [f EXCEPT !.pc = "bmu"])
                    /\ UNCHANGED status
            /\ UNCHANGED <<heap, allocated, root, nodes, nodeCountHigh, now,
                           mu, bmu, pre, last>>
         [] f.pc = "relock" ->
            \* line 629, on a later iteration
            /\ locking' = [locking EXCEPT ![t] = LockNode2(f.parent, f.child)]
            /\ stack' = WithTop(t, [f EXCEPT !.pc = "bmu"])
            /\ UNCHANGED <<heap, allocated, root, nodes, nodeCountHigh, now,
                           mu, bmu, status, pre, last>>
         [] f.pc = "bmu" ->
            \* line 630
            /\ bmu = 0
            /\ bmu' = t
            /\ stack' = WithTop(t, [f EXCEPT !.pc = "look"])
            /\ UNCHANGED <<heap, allocated, root, nodes, nodeCountHigh, now,
                           mu, locking, status, pre, last>>
         [] f.pc = "look" ->
            \* lines 631-650
            LET old == nodes[f.ino] IN
            /\ IF (old = Nil /\ f.child = Nil) \/ (old # Nil /\ old = f.child)
               THEN /\ stack' = WithTop(t, [f EXCEPT !.pc = "new"])
                    /\ UNCHANGED <<bmu, locking>>
               ELSE /\ bmu' = 0
                    /\ locking' = [locking EXCEPT ![t] = UnlockNode2(f.parent, f.child)]
                    /\ stack' = WithTop(t, [f EXCEPT !.pc = "relock", !.child = old])
            /\ UNCHANGED <<heap, allocated, root, nodes, nodeCountHigh, now,
                           mu, status, pre, last>>
         [] f.pc = "new" ->
            \* lines 653-656: a new inode is locked while b.mu is held
            /\ IF f.child # Nil
               THEN /\ stack' = WithTop(t, [f EXCEPT !.pc = "commit"])
                    /\ UNCHANGED <<heap, allocated, mu>>
               ELSE \E a \in FreeAddresses(allocated) :
                    /\ heap' = [heap EXCEPT ![a] = NewInode(f.ino, f.isDir)]
                    /\ allocated' = allocated \cup {a}
                    /\ mu' = [mu EXCEPT ![a] = t]
                    /\ stack' = WithTop(t, [f EXCEPT !.pc = "commit", !.child = a])
            /\ UNCHANGED <<root, nodes, nodeCountHigh, now, bmu, locking,
                           status, pre, last>>
         [] f.pc = "commit" ->
            \* lines 658-672
            /\ heap' = AddChildCommit(heap, f.parent, f.name, f.child, now)
            /\ now' = IF ParentsDisplaces(heap[f.child].parents,
                                           ParentEntry(f.name, f.parent))
                      THEN now + 1 ELSE now
            /\ nodes' = [nodes EXCEPT ![f.ino] = f.child]
            /\ nodeCountHigh' =
                   LET len == Cardinality({i \in Inos : nodes'[i] # Nil})
                   IN IF len > nodeCountHigh THEN len ELSE nodeCountHigh
            /\ bmu' = 0
            /\ locking' = [locking EXCEPT ![t] = UnlockNode2(f.parent, f.child)]
            /\ stack' = WithTop(t, [f EXCEPT !.pc = "ret"])
            /\ UNCHANGED <<allocated, root, mu, status, pre, last>>
         [] f.pc = "ret" ->
            \* line 674
            /\ last' = Returned(t, f.child, TRUE)
            /\ stack' = Popped(t)
            /\ UNCHANGED <<heap, allocated, root, nodes, nodeCountHigh, now,
                           mu, bmu, locking, status, pre>>

\* --------------------------------------------------------------- removeRef
RECURSIVE DropEdges(_, _, _)
\* lines 716-723: each parent entry of n whose children slot still holds n
\* a removeRef that forgets lines 716-723: the parents keep their edges
DropEdgesKeep(h, n, pes) == h

\* lines 716-723, over the snapshot of lines 700-707
DropEdges(h, n, pes) ==
    IF pes = << >> THEN h
    ELSE LET pe == Head(pes)
             h1 == IF Child(h[pe.node], pe.name) # n THEN h
                   ELSE [h EXCEPT ![pe.node].children = DropKey(@, pe.name),
                                  ![pe.node].revision = Inc32(@)]
         IN DropEdges(h1, n, Tail(pes))

PesNodes(pes) == {pes[i].node : i \in 1..Len(pes)}

\* a removeRef that forgets line 693
DeleteNodeKeep(ns, h, n) == ns

\* line 693: delete(b.nodes, n.ino)
DeleteNode(ns, h, n) == [ns EXCEPT ![h[n].ino] = Nil]

\* a removeRef that counts one lookup whatever nlookup is
ForgetOne(h, n, nlookup) ==
    IF nlookup > 0
    THEN [h EXCEPT ![n].lookupCount = @ - 1, ![n].revision = Inc32(@)]
    ELSE h

\* lines 682-685
Forget(h, n, nlookup) ==
    IF nlookup > 0
    THEN [h EXCEPT ![n].lookupCount = @ - nlookup, ![n].revision = Inc32(@)]
    ELSE h

\* a test that lets every count through
NeverExceeds(h, n, nlookup) == FALSE

\* the test of removeRef on the count (line 680)
Exceeds(h, n, nlookup) == nlookup > h[n].lookupCount

RemoveRef(t) ==
    LET f == Top(t) IN
    /\ At(t, "removeRef")
    /\ UNCHANGED <<restorer, table, apart>>
    /\ CASE f.pc = "entry" ->
            \* line 679
            /\ locking' = [locking EXCEPT ![t] = <<f.n>>]
            /\ stack' = WithTop(t, [f EXCEPT !.pc = "dec"])
            /\ UNCHANGED <<heap, allocated, root, nodes, nodeCountHigh, now,
                           mu, bmu, status, pre, last>>
         [] f.pc = "dec" ->
            \* lines 680-690
            IF Exceeds(heap, f.n, f.nlookup)
            THEN /\ status' = [status EXCEPT ![t] = "panic"]
                 /\ UNCHANGED <<heap, allocated, root, nodes, nodeCountHigh, now,
                                mu, bmu, stack, locking, pre, last>>
            ELSE LET h1 == Forget(heap, f.n, f.nlookup)
                 IN /\ heap' = h1
                    /\ IF IsLive(h1[f.n])
                       THEN /\ mu' = [mu EXCEPT ![f.n] = 0]
                            /\ last' = Returned(t, Nil, FALSE)
                            /\ stack' = PoppedRet(t, FALSE)
                       ELSE /\ stack' = WithTop(t, [f EXCEPT !.pc = "del"])
                            /\ UNCHANGED <<mu, last>>
                    /\ UNCHANGED <<allocated, root, nodes, nodeCountHigh, now,
                                   bmu, locking, status, pre>>
         [] f.pc = "del" ->
            \* lines 692-694
            /\ bmu = 0
            /\ nodes' = DeleteNode(nodes, heap, f.n)
            /\ stack' = WithTop(t, [f EXCEPT !.pc = "snap"])
            /\ UNCHANGED <<heap, allocated, root, nodeCountHigh, now, mu, bmu,
                           locking, status, pre, last>>
         [] f.pc = "snap" ->
            \* lines 700-709
            \E pes \in ParentsAll(heap[f.n].parents) :
            /\ mu' = [mu EXCEPT ![f.n] = 0]
            /\ locking' = [locking EXCEPT ![t] = LockNodes({f.n} \cup PesNodes(pes))]
            /\ stack' = WithTop(t, [f EXCEPT !.pc = "group", !.pes = pes,
                                             !.rev = heap[f.n].revision])
            /\ UNCHANGED <<heap, allocated, root, nodes, nodeCountHigh, now,
                           bmu, status, pre, last>>
         [] f.pc = "group" ->
            \* lines 710-731
            LET group == UnlockNodes({f.n} \cup PesNodes(f.pes)) IN
            IF heap[f.n].revision # f.rev
            THEN /\ mu' = [o \in Objs |-> IF o \in group THEN 0 ELSE mu[o]]
                 /\ locking' = [locking EXCEPT ![t] = <<f.n>>]
                 /\ stack' = WithTop(t, [f EXCEPT !.pc = "snap"])
                 /\ UNCHANGED <<heap, allocated, root, nodes, nodeCountHigh, now,
                                bmu, status, pre, last>>
            ELSE LET h1 == DropEdges(heap, f.n, f.pes)
                     h2 == [h1 EXCEPT ![f.n].parents = ParentsClear(@),
                                      ![f.n].revision = Inc32(@)]
                 IN /\ heap' = h2
                    /\ IF h2[f.n].lookupCount # 0
                       THEN /\ status' = [status EXCEPT ![t] = "panic"]
                            /\ UNCHANGED <<mu, stack>>
                       ELSE /\ mu' = [o \in Objs |-> IF o \in group THEN 0 ELSE mu[o]]
                            /\ stack' = WithTop(t, [f EXCEPT !.pc = "cascade"])
                            /\ UNCHANGED status
                    /\ UNCHANGED <<allocated, root, nodes, nodeCountHigh, now,
                                   bmu, locking, pre, last>>
         [] f.pc = "cascade" ->
            \* lines 733-736
            /\ IF f.pes = << >>
               THEN /\ last' = Returned(t, Nil, TRUE)
                    /\ stack' = PoppedRet(t, TRUE)
               ELSE /\ stack' = WithCall(t, [f EXCEPT !.pes = Tail(@)],
                                         RemoveRefFrame(Head(f.pes).node, 0))
                    /\ UNCHANGED last
            /\ UNCHANGED <<heap, allocated, root, nodes, nodeCountHigh, now,
                           mu, bmu, locking, status, pre>>

\* ----------------------------------------------------------------- rmChild
\* an rmChild that leaves the revisions alone
RmChildSilent(h, parent, name, child) ==
    LET h1 == [h EXCEPT ![parent].children = DropKey(@, name)]
    IN [h1 EXCEPT ![child].parents = ParentsDelete(@, ParentEntry(name, parent))]

\* lines 760-763
RmChildCommit(h, parent, name, child) ==
    LET h1 == [h EXCEPT ![parent].children = DropKey(@, name)]
        h2 == [h1 EXCEPT ![child].parents =
                              ParentsDelete(@, ParentEntry(name, parent))]
        h3 == [h2 EXCEPT ![parent].revision = Inc32(@)]
    IN [h3 EXCEPT ![child].revision = Inc32(@)]

RmChild(t) ==
    LET f == Top(t) IN
    /\ At(t, "rmChild")
    /\ UNCHANGED <<restorer, table, apart>>
    /\ CASE f.pc = "entry" ->
            \* line 745
            /\ locking' = [locking EXCEPT ![t] = <<f.parent>>]
            /\ stack' = WithTop(t, [f EXCEPT !.pc = "read"])
            /\ UNCHANGED <<heap, allocated, root, nodes, nodeCountHigh, now,
                           mu, bmu, status, pre, last>>
         [] f.pc = "read" ->
            \* lines 746-754
            LET child == Child(heap[f.parent], f.name) IN
            /\ mu' = [mu EXCEPT ![f.parent] = 0]
            /\ IF child = Nil
               THEN /\ last' = Returned(t, Nil, FALSE)
                    /\ stack' = Popped(t)
                    /\ UNCHANGED locking
               ELSE /\ locking' = [locking EXCEPT ![t] = LockNode2(f.parent, child)]
                    /\ stack' = WithTop(t, [f EXCEPT !.pc = "check", !.child = child,
                                                     !.rev = heap[f.parent].revision])
                    /\ UNCHANGED last
            /\ UNCHANGED <<heap, allocated, root, nodes, nodeCountHigh, now,
                           bmu, status, pre>>
         [] f.pc = "check" ->
            \* lines 755-767
            /\ locking' = [locking EXCEPT ![t] = UnlockNode2(f.parent, f.child)]
            /\ IF heap[f.parent].revision # f.rev
               THEN /\ stack' = WithTop(t, [f EXCEPT !.pc = "entry"])
                    /\ UNCHANGED heap
               ELSE /\ heap' = RmChildCommit(heap, f.parent, f.name, f.child)
                    /\ stack' = WithTop(t, [f EXCEPT !.pc = "after",
                                                     !.live = IsLive(heap'[f.parent])])
            /\ UNCHANGED <<allocated, root, nodes, nodeCountHigh, now,
                           mu, bmu, status, pre, last>>
         [] f.pc = "after" ->
            \* lines 769-771
            /\ IF ~f.live
               THEN stack' = WithCall(t, [f EXCEPT !.pc = "ret"],
                                      RemoveRefFrame(f.parent, 0))
               ELSE stack' = WithTop(t, [f EXCEPT !.pc = "ret"])
            /\ UNCHANGED <<heap, allocated, root, nodes, nodeCountHigh, now,
                           mu, bmu, locking, status, pre, last>>
         [] f.pc = "ret" ->
            \* line 772
            /\ last' = Returned(t, Nil, TRUE)
            /\ stack' = Popped(t)
            /\ UNCHANGED <<heap, allocated, root, nodes, nodeCountHigh, now,
                           mu, bmu, locking, status, pre>>

\* ----------------------------------------------------------------- mvChild
\* lines 797-816
MvChildCommit(h, parent, name, newParent, newName, child, destChild, stamp) ==
    LET h1 == IF child = Nil THEN h
              ELSE LET a == [h EXCEPT ![parent].children = DropKey(@, name)]
                       b == [a EXCEPT ![child].parents =
                                          ParentsDelete(@, ParentEntry(name, parent))]
                       c == [b EXCEPT ![parent].revision = Inc32(@)]
                   IN [c EXCEPT ![child].revision = Inc32(@)]
        h2 == IF destChild = Nil THEN h1
              ELSE LET a == [h1 EXCEPT ![newParent].children = DropKey(@, newName)]
                       b == [a EXCEPT ![destChild].parents =
                                          ParentsDelete(@, ParentEntry(newName, newParent))]
                       c == [b EXCEPT ![newParent].revision = Inc32(@)]
                   IN [c EXCEPT ![destChild].revision = Inc32(@)]
    IN IF child = Nil THEN h2
       ELSE LET a == [h2 EXCEPT ![newParent].children = (newName :> child) @@ @]
                b == [a EXCEPT ![child].parents =
                                   ParentsAdd(@, ParentEntry(newName, newParent), stamp)]
                c == [b EXCEPT ![newParent].revision = Inc32(@)]
            IN [c EXCEPT ![child].revision = Inc32(@)]

MvChild(t) ==
    LET f == Top(t) IN
    /\ At(t, "mvChild")
    /\ UNCHANGED <<restorer, table, apart>>
    /\ CASE f.pc = "entry" ->
            \* line 781
            /\ locking' = [locking EXCEPT ![t] = LockNode2(f.parent, f.newParent)]
            /\ stack' = WithTop(t, [f EXCEPT !.pc = "read"])
            /\ UNCHANGED <<heap, allocated, root, nodes, nodeCountHigh, now,
                           mu, bmu, status, pre, last>>
         [] f.pc = "read" ->
            \* lines 782-785
            /\ locking' = [locking EXCEPT ![t] = UnlockNode2(f.parent, f.newParent)]
            /\ stack' = WithTop(t, [f EXCEPT !.pc = "decide",
                                     !.rev = heap[f.parent].revision,
                                     !.nRev = heap[f.newParent].revision,
                                     !.child = Child(heap[f.parent], f.name),
                                     !.destChild = Child(heap[f.newParent], f.newName)])
            /\ UNCHANGED <<heap, allocated, root, nodes, nodeCountHigh, now,
                           mu, bmu, status, pre, last>>
         [] f.pc = "decide" ->
            \* lines 787-791
            /\ IF f.destChild # Nil /\ ~f.overwrite
               THEN /\ last' = Returned(t, Nil, FALSE)
                    /\ stack' = Popped(t)
                    /\ UNCHANGED locking
               ELSE /\ locking' = [locking EXCEPT ![t] =
                           LockNodes({f.parent, f.newParent, f.child, f.destChild})]
                    /\ stack' = WithTop(t, [f EXCEPT !.pc = "check"])
                    /\ UNCHANGED last
            /\ UNCHANGED <<heap, allocated, root, nodes, nodeCountHigh, now,
                           mu, bmu, status, pre>>
         [] f.pc = "check" ->
            \* lines 792-821
            LET group == UnlockNodes({f.parent, f.newParent, f.child, f.destChild}) IN
            /\ mu' = [o \in Objs |-> IF o \in group THEN 0 ELSE mu[o]]
            /\ IF heap[f.parent].revision # f.rev \/ heap[f.newParent].revision # f.nRev
               THEN /\ stack' = WithTop(t, [f EXCEPT !.pc = "entry"])
                    /\ UNCHANGED <<heap, now>>
               ELSE /\ heap' = MvChildCommit(heap, f.parent, f.name, f.newParent,
                                             f.newName, f.child, f.destChild, now)
                    /\ now' = now + 1
                    /\ stack' = WithTop(t, [f EXCEPT !.pc = "after",
                                             !.live = IsLive(heap'[f.parent]),
                                             !.newLive = IsLive(heap'[f.newParent])])
            /\ UNCHANGED <<allocated, root, nodes, nodeCountHigh, bmu, locking,
                           status, pre, last>>
         [] f.pc = "after" ->
            \* lines 823-825
            /\ IF ~f.live
               THEN stack' = WithCall(t, [f EXCEPT !.pc = "after2"],
                                      RemoveRefFrame(f.parent, 0))
               ELSE stack' = WithTop(t, [f EXCEPT !.pc = "after2"])
            /\ UNCHANGED <<heap, allocated, root, nodes, nodeCountHigh, now,
                           mu, bmu, locking, status, pre, last>>
         [] f.pc = "after2" ->
            \* lines 826-828
            /\ IF ~f.newLive
               THEN stack' = WithCall(t, [f EXCEPT !.pc = "ret"],
                                      RemoveRefFrame(f.newParent, 0))
               ELSE stack' = WithTop(t, [f EXCEPT !.pc = "ret"])
            /\ UNCHANGED <<heap, allocated, root, nodes, nodeCountHigh, now,
                           mu, bmu, locking, status, pre, last>>
         [] f.pc = "ret" ->
            \* line 829
            /\ last' = Returned(t, Nil, TRUE)
            /\ stack' = Popped(t)
            /\ UNCHANGED <<heap, allocated, root, nodes, nodeCountHigh, now,
                           mu, bmu, locking, status, pre>>

\* ------------------------------------------------------------------- calls
\* A request resolves its node arguments through b.nodes (rawBridge.inode,
\* under b.mu) and calls one of the four operations.  A parent is a directory.
Begin(t, f) ==
    /\ Idle(t)
    /\ phase \in {"new", "serving"}
    /\ bmu = 0
    /\ stack' = [stack EXCEPT ![t] = <<f>>]
    /\ pre' = [pre EXCEPT ![t] = [heap |-> heap, nodes |-> nodes]]
    /\ last' = [last EXCEPT ![t] = NoCall]
    /\ phase' = "serving"
    /\ UNCHANGED <<heap, allocated, root, nodes, nodeCountHigh, now, mu, bmu,
                   locking, status, nodeCount, addNodeCount, dumper, table,
                   apart>>

CallAddChild(t) ==
    \E parent \in DirsInNodes, name \in Names \cup VirtualNames,
       ino \in Inos, isDir \in BOOLEAN :
       Begin(t, [Frame0 EXCEPT !.fn = "addChild", !.pc = "entry",
                               !.parent = parent, !.name = name,
                               !.ino = ino, !.isDir = isDir])

CallRemoveRef(t) ==
    \E n \in InNodes, nlookup \in 0..MaxForget :
       Begin(t, RemoveRefFrame(n, nlookup))

CallRmChild(t) ==
    \E parent \in DirsInNodes, name \in Names :
       Begin(t, [Frame0 EXCEPT !.fn = "rmChild", !.pc = "entry",
                               !.parent = parent, !.name = name])

CallMvChild(t) ==
    \E parent \in DirsInNodes, newParent \in DirsInNodes,
       name \in Names, newName \in Names, overwrite \in BOOLEAN :
       Begin(t, [Frame0 EXCEPT !.fn = "mvChild", !.pc = "entry",
                               !.parent = parent, !.name = name,
                               !.newParent = newParent, !.newName = newName,
                               !.overwrite = overwrite])

\* ----------------------------------------------------------------- restore
\* rawBridge.Restore: b.nodes is emptied; the header carries the node count
Restore ==
    /\ phase = "new"
    /\ \E cnt \in 0..MaxRecs : nodeCount' = cnt
    /\ addNodeCount' = 0
    /\ nodes' = [i \in Inos |-> Nil]
    /\ phase' = "restoring"
    /\ UNCHANGED <<heap, allocated, root, nodeCountHigh, now, mu, bmu,
                   stack, locking, status, pre, last, dumper, table, apart>>

\* the records a dump may carry
DumpParents ==
    UNION {[1..k -> [name : Names, node : Inos]] : k \in 0..MaxParents}
DumpInodes ==
    [ino : Inos, revision : 1..MaxRev, lookupCount : 0..MaxForget,
     parents : DumpParents, isDir : BOOLEAN]

\* the restorer's view of the bridge while a record is applied
RState(h, ns, al, clk, ok) ==
    [heap |-> h, nodes |-> ns, allocated |-> al, now |-> clk, ok |-> ok]

\* a getDirInode whose placeholder has no children map
GetFileInode(st, ino, a) ==
    IF st.nodes[ino] # Nil THEN st
    ELSE [st EXCEPT !.heap[a] = NewInode(ino, FALSE),
                    !.nodes[ino] = a,
                    !.allocated = @ \cup {a}]

\* getDirInode: the inode of ino, or a new directory placeholder at address a
GetDirInode(st, ino, a) ==
    IF st.nodes[ino] # Nil THEN st
    ELSE [st EXCEPT !.heap[a] = NewInode(ino, TRUE),
                    !.nodes[ino] = a,
                    !.allocated = @ \cup {a}]

RECURSIVE AddParents(_, _, _, _)
\* lines 137-141, for the parents from index i on; free lists the addresses
\* the allocator hands out, in order.  Storing into the nil children map of
\* an inode that is no directory is a run-time panic.
AddParents(st, cur, dps, free) ==
    IF dps = << >> \/ ~st.ok THEN st
    ELSE LET dp == Head(dps)
             fresh == st.nodes[dp.node] = Nil
             s1 == GetDirInode(st, dp.node, Head(free))
             par == s1.nodes[dp.node]
             pe == ParentEntry(dp.name, par)
         IN IF ~IsDir(s1.heap[par])
            THEN [s1 EXCEPT !.ok = FALSE]
            ELSE LET s2 == [s1 EXCEPT
                              !.heap[par].children = (dp.name :> cur) @@ @,
                              !.heap[cur].parents = ParentsAdd(@, pe, s1.now),
                              !.now = IF ParentsDisplaces(s1.heap[cur].parents, pe)
                                      THEN @ + 1 ELSE @]
                 IN AddParents(s2, cur, Tail(dps),
                               IF fresh THEN Tail(free) ELSE free)

\* InodeRestorer.AddInode; the new inodes take the free addresses in
\* ascending order
AddInodeResult(st, d, free) ==
    LET found == st.nodes[d.ino] # Nil
        s1 == IF found THEN st
              ELSE [st EXCEPT !.heap[Head(free)] = NewInode(d.ino, FALSE),
                              !.nodes[d.ino] = Head(free),
                              !.allocated = @ \cup {Head(free)}]
        cur == s1.nodes[d.ino]
        s2 == [s1 EXCEPT !.heap[cur].revision = d.revision,
                         !.heap[cur].lookupCount = d.lookupCount,
                         !.heap[cur].dir = @ \/ d.isDir]
    IN AddParents(s2, cur, d.parents, IF found THEN free ELSE Tail(free))

\* the number of inodes a record creates: its own and one per parent, as
\* far as b.nodes lacks them
NeedObjs(ns, d) ==
    Cardinality({i \in {d.ino} \cup {d.parents[k].node : k \in 1..Len(d.parents)} :
                    ns[i] = Nil})

\* InodeRestorer.AddInode on the record d
AddInodeOf(d) ==
    /\ phase = "restoring"
    /\ \E free \in {SortedSeq(Objs \ allocated)} :
          /\ Len(free) >= NeedObjs(nodes, d)
          /\ LET r == AddInodeResult(RState(heap, nodes, allocated, now, TRUE), d, free)
             IN /\ heap' = r.heap
                /\ nodes' = r.nodes
                /\ allocated' = r.allocated
                /\ now' = r.now
                /\ IF r.ok
                   THEN /\ addNodeCount' = addNodeCount + 1
                        /\ phase' = phase
                   ELSE /\ addNodeCount' = addNodeCount
                        /\ phase' = "panicked"
    /\ UNCHANGED <<root, nodeCountHigh, mu, bmu, stack, locking, status,
                   pre, last, nodeCount, err, sender, table, apart>>

\* AddInode on any record, for streams of MaxRecs records
AddInode ==
    /\ addNodeCount < MaxRecs
    /\ sender.nodes = << >>
    /\ \E d \in DumpInodes : AddInodeOf(d)
    /\ UNCHANGED stream

\* fmt.Errorf("expected %d inodes, but only got %d inodes", ...)
ExpectedGot(n, m) ==
    "expected " \o ToString(n) \o " inodes, but only got " \o ToString(m) \o " inodes"

FinishedUncounted ==
    /\ phase = "restoring"
    /\ IF nodes[RootIno] = Nil
       THEN /\ phase' = "failed"
            /\ err' = "root inode not found"
            /\ UNCHANGED <<root, nodeCountHigh>>
       ELSE /\ root' = nodes[RootIno]
            /\ phase' = "serving"
            /\ err' = ""
            /\ nodeCountHigh' = NodeCount
    /\ UNCHANGED <<heap, allocated, nodes, now, mu, bmu, stack, locking,
                   status, pre, last, nodeCount, addNodeCount, sender, stream,
                   table, apart>>

\* InodeRestorer.Finished
Finished ==
    /\ phase = "restoring"
    /\ IF nodes[RootIno] = Nil
       THEN /\ phase' = "failed"
            /\ err' = "root inode not found"
            /\ UNCHANGED <<root, nodeCountHigh>>
       ELSE /\ root' = nodes[RootIno]
            /\ IF addNodeCount < nodeCount
               THEN /\ phase' = "failed"
                    /\ err' = ExpectedGot(nodeCount, addNodeCount)
                    /\ UNCHANGED nodeCountHigh
               ELSE /\ phase' = "serving"
                    /\ err' = ""
                    /\ nodeCountHigh' = NodeCount
    /\ UNCHANGED <<heap, allocated, nodes, now, mu, bmu, stack, locking,
                   status, pre, last, nodeCount, addNodeCount, sender, stream,
                   table, apart>>

Step(t) ==
    \/ CallAddChild(t)
    \/ CallRemoveRef(t)
    \/ CallRmChild(t)
    \/ CallMvChild(t)
    \/ Acquire(t)
    \/ AddChild(t)
    \/ RemoveRef(t)
    \/ RmChild(t)
    \/ MvChild(t)

\* NThreads goroutines serve requests on the graph NewPathFS built
Next == \E t \in Threads : Step(t)

Spec == Init /\ [][Next]_vars

\* one goroutine calls the operations one after another, on the graph
\* NewPathFS built or on a graph a restore built
SeqNext == Restore \/ AddInode \/ Finished \/ Step(1)

\* the root inode at the lowest address
SeqInit == NewPathFS(1) /\ Started

SeqSpec == SeqInit /\ [][SeqNext]_vars

\* ------------------------------------------------------------------ pathOf
\* lines 53-59 of file.go: the segments swapped end for end
SameOrder(s) == s

Reverse(s) == [i \in 1..Len(s) |-> s[Len(s) + 1 - i]]

RECURSIVE Join(_, _)
\* strings.Join
Join(segs, sep) ==
    IF segs = << >> THEN ""
    ELSE IF Len(segs) = 1 THEN segs[1]
    ELSE segs[1] \o sep \o Join(Tail(segs), sep)

\* fmt.Sprintf(".pathfs.orphaned/%d.%d", n.ino, rand.Uint64())
Placeholder(ino, r) == ".pathfs.orphaned/" \o ToString(ino) \o "." \o ToString(r)

PathOfFrame(n) == [Frame0 EXCEPT !.fn = "pathOf", !.pc = "entry", !.n = n, !.it = n]

ReturnedPath(t, path) ==
    IF Depth(t) = 1
    THEN [last EXCEPT ![t] = [call |-> Top(t), node |-> Nil, ok |-> TRUE,
                              path |-> path]]
    ELSE last

\* rawBridge.pathOf.  The walk has no bound in the code; a walk that would
\* collect more than MaxPath segments stays where it is.
PathOf(t) ==
    LET f == Top(t) IN
    /\ At(t, "pathOf")
    /\ UNCHANGED <<restorer, table, apart>>
    /\ CASE f.pc = "entry" ->
            \* lines 30-37
            /\ IF f.n = root
               THEN /\ last' = ReturnedPath(t, "")
                    /\ stack' = Popped(t)
                    /\ UNCHANGED locking
               ELSE /\ locking' = [locking EXCEPT ![t] = <<f.n>>]
                    /\ stack' = WithTop(t, [f EXCEPT !.pc = "get"])
                    /\ UNCHANGED last
            /\ UNCHANGED <<heap, allocated, root, nodes, nodeCountHigh, now,
                           mu, bmu, status, pre>>
         [] f.pc = "get" ->
            \* lines 38-43, then the loop test of line 36 and line 37
            LET pe == ParentsGet(heap[f.it].parents)
                segs == IF pe.node # Nil THEN Append(f.segments, pe.name)
                        ELSE f.segments
            IN /\ Len(f.segments) < MaxPath
               /\ mu' = [mu EXCEPT ![f.it] = 0]
               /\ IF pe.node # Nil /\ pe.node # root
                  THEN /\ locking' = [locking EXCEPT ![t] = <<pe.node>>]
                       /\ stack' = WithTop(t, [f EXCEPT !.it = pe.node,
                                                        !.segments = segs])
                  ELSE /\ stack' = WithTop(t, [f EXCEPT !.pc = "done",
                                                        !.it = pe.node,
                                                        !.segments = segs])
                       /\ UNCHANGED locking
               /\ UNCHANGED <<heap, allocated, root, nodes, nodeCountHigh, now,
                              bmu, status, pre, last>>
         [] f.pc = "done" ->
            \* lines 46-62
            /\ IF f.it # root
               THEN \E r \in 0..MaxRand :
                       last' = ReturnedPath(t, Placeholder(heap[f.n].ino, r))
               ELSE last' = ReturnedPath(t, Join(Reverse(f.segments), "/"))
            /\ stack' = Popped(t)
            /\ UNCHANGED <<heap, allocated, root, nodes, nodeCountHigh, now,
                           mu, bmu, locking, status, pre>>

CallPathOf(t) == \E n \in InNodes : Begin(t, PathOfFrame(n))

\* ------------------------------------------------------------------ Forget
CompactedAlways(high, n) == n

\* compactMemory, lines 157-168: the high-water mark it leaves, for n nodes
CompactedHigh(high, n) == IF high <= n * CompactFactor THEN high ELSE n

\* rawBridge.Forget, with rawBridge.inode (lines 63-71) and compactMemory
\* (lines 154-173)
BridgeForget(t) ==
    LET f == Top(t) IN
    /\ At(t, "Forget")
    /\ UNCHANGED <<restorer, table, apart>>
    /\ CASE f.pc = "entry" ->
            \* line 146: b.inode panics on an ino that b.nodes lacks; the
            \* deferred Unlock releases b.mu
            /\ bmu = 0
            /\ IF nodes[f.ino] = Nil
               THEN /\ status' = [status EXCEPT ![t] = "panic"]
                    /\ UNCHANGED stack
               ELSE /\ stack' = WithCall(t, [f EXCEPT !.pc = "removed",
                                                      !.n = nodes[f.ino]],
                                         RemoveRefFrame(nodes[f.ino], f.nlookup))
                    /\ UNCHANGED status
            /\ UNCHANGED <<heap, allocated, root, nodes, nodeCountHigh, now,
                           mu, bmu, locking, pre, last>>
         [] f.pc = "removed" ->
            \* lines 149-152
            /\ IF f.removed
               THEN /\ stack' = WithTop(t, [f EXCEPT !.pc = "compact"])
                    /\ UNCHANGED last
               ELSE /\ last' = Returned(t, Nil, FALSE)
                    /\ stack' = Popped(t)
            /\ UNCHANGED <<heap, allocated, root, nodes, nodeCountHigh, now,
                           mu, bmu, locking, status, pre>>
         [] f.pc = "compact" ->
            \* compactMemory: the copied map holds the same entries
            /\ bmu = 0
            /\ nodeCountHigh' = CompactedHigh(nodeCountHigh, NodeCount)
            /\ last' = Returned(t, Nil, TRUE)
            /\ stack' = Popped(t)
            /\ UNCHANGED <<heap, allocated, root, nodes, now, mu, bmu,
                           locking, status, pre>>

CallForget(t) ==
    \E ino \in Inos, nlookup \in 0..MaxForget :
       Begin(t, [Frame0 EXCEPT !.fn = "Forget", !.pc = "entry",
                               !.ino = ino, !.nlookup = nlookup])

\* ------------------------------------------------------------------ Lookup
\* rawBridge.Lookup and rawBridge.lookup; the backend's GetAttr answers
\* with a failure or with an inode number and a file type
Lookup(t) ==
    LET f == Top(t) IN
    /\ At(t, "Lookup")
    /\ UNCHANGED <<restorer, table, apart, heap, allocated, root, nodes,
                   nodeCountHigh, now,
                   mu, bmu, locking, pre>>
    /\ CASE f.pc = "entry" ->
            \* lines 118-119
            /\ bmu = 0
            /\ IF nodes[f.ino] = Nil
               THEN /\ status' = [status EXCEPT ![t] = "panic"]
                    /\ UNCHANGED stack
               ELSE /\ stack' = WithCall(t, [f EXCEPT !.pc = "attr",
                                                      !.parent = nodes[f.ino]],
                                         PathOfFrame(nodes[f.ino]))
                    /\ UNCHANGED status
            /\ UNCHANGED last
         [] f.pc = "attr" ->
            \* lines 121-123 and 133-138
            /\ \/ stack' = WithCall(t, [f EXCEPT !.pc = "ret", !.code = FALSE],
                                     [Frame0 EXCEPT !.fn = "rmChild", !.pc = "entry",
                                                    !.parent = f.parent,
                                                    !.name = f.name])
               \/ \E i \in Inos, d \in BOOLEAN :
                     stack' = WithCall(t, [f EXCEPT !.pc = "ret", !.code = TRUE,
                                                   !.attrIno = i, !.attrDir = d],
                                       [Frame0 EXCEPT !.fn = "addChild",
                                                      !.pc = "entry",
                                                      !.parent = f.parent,
                                                      !.name = f.name,
                                                      !.ino = i, !.isDir = d])
            /\ UNCHANGED <<status, last>>
         [] f.pc = "ret" ->
            \* lines 129 and 140-142
            /\ last' = Returned(t, Nil, f.code)
            /\ stack' = Popped(t)
            /\ UNCHANGED status

\* the kernel looks names up in directories
CallLookup(t) ==
    \E ino \in Inos, name \in Names :
       /\ nodes[ino] # Nil => IsDir(heap[nodes[ino]])
       /\ Begin(t, [Frame0 EXCEPT !.fn = "Lookup", !.pc = "entry",
                                  !.ino = ino, !.name = name])

\* one goroutine serves Forget and Lookup requests, on the graph NewPathFS
\* built or on a graph a restore built
FsNext ==
    \/ Restore \/ AddInode \/ Finished
    \/ CallForget(1) \/ BridgeForget(1)
    \/ CallLookup(1) \/ Lookup(1)
    \/ PathOf(1) \/ AddChild(1) \/ RemoveRef(1) \/ RmChild(1)
    \/ Acquire(1)

FsSpec == SeqInit /\ [][FsNext]_vars

\* -------------------------------------------------------- dump and restore
\* the records of a stream that builds a tree: every inode looked up once
TreeInodes == {d \in DumpInodes : d.lookupCount = 1}

\* AddInode for streams of MaxTreeRecs records
AddTreeInode ==
    /\ addNodeCount < MaxTreeRecs
    /\ sender.nodes = << >>
    /\ \E d \in TreeInodes : AddInodeOf(d)
    /\ UNCHANGED stream

\* inodeParents.Dump: every entry of the set once, as (name, ino of the
\* parent); the order of the entries is not fixed
ParentsDump(h, p) ==
    {[i \in 1..Len(q) |-> [name |-> q[i].name, node |-> h[q[i].node].ino]] :
        q \in SeqsOf(ParentsSet(p))}

DumpInodeSansRevision(h, o, ps) ==
    [ino |-> h[o].ino, revision |-> 0,
     lookupCount |-> h[o].lookupCount, parents |-> ps, isDir |-> IsDir(h[o])]

\* InodeDumper.Next, lines 75-81: the record of the inode at address o
DumpInode(h, o, ps) ==
    [ino |-> h[o].ino, revision |-> h[o].revision,
     lookupCount |-> h[o].lookupCount, parents |-> ps, isDir |-> IsDir(h[o])]

\* rawBridge.Dump: the header carries NodeCount(), the iterator the inodes
\* of b.nodes
Dump ==
    /\ phase \in {"new", "serving"}
    /\ sender.nodes = << >>
    /\ \A t \in Threads : Idle(t)
    /\ bmu = 0
    /\ sender' = [heap |-> heap, nodes |-> nodes]
    /\ stream' = InNodes
    /\ phase' = "dumped"
    /\ UNCHANGED <<heap, allocated, root, nodes, nodeCountHigh, now, mu, bmu,
                   stack, locking, status, pre, last, nodeCount, addNodeCount,
                   err, table, apart>>

\* rawBridge.Restore of the dump's header on a bridge that is new and
\* empty (&rawBridge{})
RestoreDump ==
    /\ phase = "dumped"
    /\ heap' = [o \in Objs |-> NewInode(0, FALSE)]
    /\ allocated' = {}
    /\ root' = Nil
    /\ nodes' = [i \in Inos |-> Nil]
    /\ nodeCountHigh' = 0
    /\ nodeCount' = Cardinality({i \in Inos : sender.nodes[i] # Nil})
    /\ addNodeCount' = 0
    /\ phase' = "restoring"
    /\ UNCHANGED <<now, mu, bmu, stack, locking, status, pre, last, dumper,
                   table, apart>>

\* InodeDumper.Next hands the record of one more inode, in the order of a
\* map iteration, to AddInode
NextAddInode ==
    /\ sender.nodes # << >>
    /\ \E o \in stream :
          /\ stream' = stream \ {o}
          /\ \E ps \in ParentsDump(sender.heap, sender.heap[o].parents) :
                AddInodeOf(DumpInode(sender.heap, o, ps))

\* a stream of records builds a tree and paths are asked for
TreeNext ==
    \/ Restore \/ AddTreeInode \/ Finished
    \/ CallPathOf(1) \/ PathOf(1) \/ Acquire(1)

TreeSpec == SeqInit /\ [][TreeNext]_vars

\* a stream of records builds a graph, which is dumped and restored on a
\* new bridge
CopyNext ==
    \/ Restore \/ AddTreeInode \/ Finished
    \/ Dump \/ RestoreDump \/ NextAddInode

CopySpec == SeqInit /\ [][CopyNext]_vars

\* ------------------------------------------------------- concurrent Forget
\* the records of a stream of directories without parents, each looked up
\* once
PlainInodes ==
    {d \in DumpInodes : d.lookupCount = 1 /\ d.isDir /\ d.parents = << >>}

\* AddInode for streams of MaxTreeRecs such records
AddPlainInode ==
    /\ addNodeCount < MaxTreeRecs
    /\ sender.nodes = << >>
    /\ \E d \in PlainInodes : AddInodeOf(d)
    /\ UNCHANGED stream

\* addChild of a directory under the name "a"
CallAddDir(t) ==
    \E parent \in DirsInNodes, ino \in Inos :
       Begin(t, [Frame0 EXCEPT !.fn = "addChild", !.pc = "entry",
                               !.parent = parent, !.name = "a",
                               !.ino = ino, !.isDir = TRUE])

\* two goroutines serve Forget requests, and the second one looks
\* directories up (addChild), on the graph NewPathFS built or on a graph a
\* restore built
ForgetNext ==
    \/ Restore \/ AddPlainInode \/ Finished
    \/ CallAddDir(2)
    \/ \E t \in Threads :
          \/ CallForget(t) \/ BridgeForget(t)
          \/ AddChild(t) \/ RemoveRef(t) \/ Acquire(t)

ForgetSpec == SeqInit /\ [][ForgetNext]_vars

\* -------------------------------------------------------------- file table
Paths == {"", "a"}

\* what the backend's Lsdir can list: names, the empty name among them
Listings == UNION {[1..k -> Names \cup {""}] : k \in 0..MaxList}

\* the file table as a call on handle fh finds it: the free list, the
\* handles held, the number of slots and the stream of slot fh
FileTable(fh) ==
    [freeFiles |-> freeFiles, held |-> held, freed |-> freed,
     slots |-> Len(files),
     stream |-> IF fh < Len(files) THEN files[fh + 1].stream ELSE << >>]

TakeOldest(free) == free[1]

\* line 85: the handle registerFile takes from a free list that is not empty
TakeFree(free) == free[Len(free)]

\* rawBridge.registerFile, under b.mu; at most MaxFiles slots
RegisterFileOf(path, uFh, dirStream) ==
    /\ phase \in {"new", "serving"}
    /\ bmu = 0
    /\ freeFiles # << >> \/ Len(files) < MaxFiles
    /\ LET reuse == Len(freeFiles) > 0
           fh == IF reuse THEN TakeFree(freeFiles) ELSE Len(files)
           slots == IF reuse THEN files ELSE Append(files, ZeroEntry)
       IN /\ freeFiles' = IF reuse
                          THEN SubSeq(freeFiles, 1, Len(freeFiles) - 1)
                          ELSE freeFiles
          /\ files' = [slots EXCEPT ![fh + 1] = FileEntry(path, uFh, dirStream)]
          /\ held' = held \cup {fh}
          /\ fop' = FileOp("registerFile", fh, 0, FALSE, "OK", << >>)
          /\ fpre' = FileTable(fh)
    /\ freed' = -1
    /\ UNCHANGED <<heap, allocated, root, nodes, nodeCountHigh, now, mu, bmu,
                   stack, locking, status, pre, last, restorer, apart>>

\* registerFile as Open and Create call it: any path, any backend handle
RegisterFile ==
    \E path \in Paths, uFh \in 0..MaxUFh : RegisterFileOf(path, uFh, << >>)

\* rawBridge.unregisterFile, under b.mu; the free list is kept to MaxFree
\* handles
UnregisterFileOf(fh) ==
    /\ phase \in {"new", "serving"}
    /\ bmu = 0
    /\ fh = 0 \/ Len(freeFiles) < MaxFree
    /\ IF fh = 0
       THEN UNCHANGED <<files, freeFiles, held, freed>>
       ELSE /\ files' = [files EXCEPT ![fh + 1] = ZeroEntry]
            /\ freeFiles' = Append(freeFiles, fh)
            /\ held' = held \ {fh}
            /\ freed' = fh
    /\ fop' = FileOp("unregisterFile", fh, 0, FALSE, "OK", << >>)
    /\ fpre' = FileTable(fh)
    /\ UNCHANGED <<heap, allocated, root, nodes, nodeCountHigh, now, mu, bmu,
                   stack, locking, status, pre, last, restorer, apart>>

\* unregisterFile for 0 and for every handle that registerFile has returned,
\* held or not
UnregisterFile == \E fh \in 0..(Len(files) - 1) : UnregisterFileOf(fh)

\* rawBridge.OpenDir on the root directory, whose path is ""
OpenDir == nodes[RootIno] # Nil /\ RegisterFileOf("", 0, << >>)

\* rawBridge.ReleaseDir: the kernel releases a handle it holds
ReleaseDir == \E fh \in held : UnregisterFileOf(fh)

FetchWhenEmpty(cached, offset) == cached = << >>

\* line 590: d.stream == nil || input.Offset == 0
NeedsFetch(cached, offset) == cached = << >> \/ offset = 0

\* lines 601-620: the entries handed out from offset on; entries without a
\* name are skipped, and the loop ends when the reply buffer is full
Served(cached, offset) ==
    IF offset > Len(cached) THEN {<< >>}
    ELSE LET named == SelectSeq(SubSeq(cached, offset + 1, Len(cached)),
                                LAMBDA e : e # "")
         IN {SubSeq(named, 1, k) : k \in 0..Len(named)}

\* rawBridge.ReadDir on the root directory, by one goroutine (d.mu is taken
\* and released inside the call): any handle the kernel holds, any offset up
\* to one past the longest stream
ReadDir ==
    \E fh \in held, offset \in 0..(MaxList + 3) :
       LET d == files[fh + 1] IN
       /\ phase \in {"new", "serving"}
       /\ bmu = 0
       /\ nodes[RootIno] # Nil
       /\ IF NeedsFetch(d.stream, offset)
          THEN \/ /\ fop' = FileOp("ReadDir", fh, offset, TRUE, "EIO", << >>)
                  /\ UNCHANGED files
               \/ \E l \in Listings :
                     LET fetched == l \o <<".", "..">> IN
                     /\ files' = [files EXCEPT ![fh + 1].stream = fetched]
                     /\ \E out \in Served(fetched, offset) :
                           fop' = FileOp("ReadDir", fh, offset, TRUE, "OK", out)
          ELSE /\ \E out \in Served(d.stream, offset) :
                     fop' = FileOp("ReadDir", fh, offset, FALSE, "OK", out)
               /\ UNCHANGED files
       /\ fpre' = FileTable(fh)
       /\ UNCHANGED <<freeFiles, held, freed>>
       /\ UNCHANGED <<heap, allocated, root, nodes, nodeCountHigh, now, mu, bmu,
                      stack, locking, status, pre, last, restorer, apart>>

\* handles are registered and unregistered
FileNext == RegisterFile \/ UnregisterFile

FileSpec == SeqInit /\ [][FileNext]_vars

\* the root directory is opened, read and released
DirNext == OpenDir \/ ReadDir \/ ReleaseDir

DirSpec == SeqInit /\ [][DirNext]_vars

\* ================================================================== claims
\* no call in progress and no goroutine dead of a panic
Quiescent == \A t \in Threads : Idle(t)

\* goroutine t is inside an outermost call of fn
Called(t, fn) == stack[t] # << >> /\ stack[t][1].fn = fn

\* goroutine t has returned from an outermost call of fn and is idle since
Ret(t, fn) == stack[t] = << >> /\ last[t].call.fn = fn

\* goroutine t waits in Lock() for a mutex that it holds itself: sync.Mutex
\* is not reentrant, so t never runs again
SelfBlocked(t) ==
    /\ status[t] = "run"
    /\ locking[t] # << >>
    /\ mu[Head(locking[t])] = t

\* the object is the value of nodes[its ino]
InMap(o) == nodes[heap[o].ino] = o

C2_ParentEntriesMirrored ==
    /\ \A t \in Threads : ~SelfBlocked(t)
    /\ Quiescent =>
          \A c \in InNodes \ {root} :
             \A e \in ParentsSet(heap[c].parents) :
                Child(heap[e.node], e.name) = c

\* ---- C3
AddChildNode(t) ==
    LET f == last[t].call
        c == last[t].node
        old == pre[t].nodes[f.ino]
    IN /\ nodes[f.ino] = c
       /\ IF old # Nil
          THEN /\ c = old
               /\ heap[c].lookupCount = pre[t].heap[old].lookupCount + 1
          ELSE /\ heap[c].lookupCount = 1
               /\ IsDir(heap[c]) <=> f.isDir

\* C3: addChild(parent, name, ino, isDir) returns a node c with
\* nodes[ino] = c; c is the node nodes held for ino before, its lookupCount
\* one higher, or else a new node with lookupCount 1, a directory iff isDir.
C3_AddChildReturnsNode ==
    \A t \in Threads :
       /\ Called(t, "addChild") => ~SelfBlocked(t)
       /\ Ret(t, "addChild") => AddChildNode(t)

\* ---- C4
\* C4: addChild returns a node c with parent.children[name] = c whose
\* ParentSet holds (name, parent) as its newest entry.
C4_AddChildLinksNewest ==
    \A t \in Threads :
       /\ Called(t, "addChild") /\ locking[t] # << >> =>
             mu[Head(locking[t])] # t
       /\ Ret(t, "addChild") =>
             LET f == last[t].call
                 c == last[t].node
                 e == ParentEntry(f.name, f.parent)
             IN /\ Child(heap[f.parent], f.name) = c
                /\ e \in ParentsSet(heap[c].parents)
                /\ ParentsGet(heap[c].parents) = e

\* ---- C5
\* C5: addChild with an ino already in nodes and a (parent, name) pair not
\* yet in the node's ParentSet returns with the ParentSet one entry larger,
\* every previous entry kept, and every entry's parent mapping its name to
\* the node.
C5_AddChildHardLink ==
    \A t \in Threads :
       LET f == IF stack[t] # << >> THEN stack[t][1] ELSE last[t].call
           old == pre[t].nodes[f.ino]
           e == ParentEntry(f.name, f.parent)
           case == /\ f.fn = "addChild"
                   /\ old # Nil
                   /\ e \notin ParentsSet(pre[t].heap[old].parents)
       IN /\ case /\ stack[t] # << >> => ~SelfBlocked(t)
          /\ case /\ Ret(t, "addChild") =>
                /\ ParentsCount(heap[old].parents) =
                      ParentsCount(pre[t].heap[old].parents) + 1
                /\ ParentsSet(pre[t].heap[old].parents) \subseteq
                      ParentsSet(heap[old].parents)
                /\ \A x \in ParentsSet(heap[old].parents) :
                      Child(heap[x.node], x.name) = old

\* ---- C6
\* the call of removeRef(n, k) that goroutine t has returned from found n
\* with lookupCount k and no children
DiesOf(t) ==
    LET f == last[t].call
    IN /\ Ret(t, "removeRef")
       /\ pre[t].heap[f.n].lookupCount = f.nlookup
       /\ DOMAIN pre[t].heap[f.n].children = {}

RECURSIVE Reachable(_, _)
\* the objects a walk down children maps from the objects of S finds
Reachable(h, S) ==
    LET next == S \cup
                UNION {{h[o].children[nm] : nm \in DOMAIN h[o].children} : o \in S}
    IN IF next = S THEN S ELSE Reachable(h, next)

\* C7: the addChild calls that give n its k lookups return; the removeRef
\* that forgets the last of the k lookups leaves n, if n has no children,
\* out of nodes and out of every directory reachable from the root, and
\* leaves n, if n has a child, in nodes and as reachable as it was.
C7_LookupsBalance ==
    \A t \in Threads :
       /\ ~(Called(t, "addChild") /\ SelfBlocked(t))
       /\ Ret(t, "removeRef") /\ root # Nil =>
             LET n == last[t].call.n
                 k == last[t].call.nlookup
                 was == pre[t].heap[n]
             IN k >= 1 /\ was.lookupCount = k =>
                   IF DOMAIN was.children = {}
                   THEN /\ ~InMap(n)
                        /\ \A d \in Reachable(heap, {root}) :
                              \A nm \in DOMAIN heap[d].children :
                                 heap[d].children[nm] # n
                   ELSE /\ InMap(n)
                        /\ n \in Reachable(pre[t].heap, {root}) =>
                              n \in Reachable(heap, {root})

\* ---- C8
\* the call of removeRef(n, k) that goroutine t has returned from found n
\* with lookupCount >= k and with more lookups than k or with a child
StaysOf(t) ==
    LET f == last[t].call
        was == pre[t].heap[f.n]
    IN /\ Ret(t, "removeRef")
       /\ f.nlookup <= was.lookupCount
       /\ was.lookupCount > f.nlookup \/ DOMAIN was.children # {}

\* C8: a removeRef(n, k) with k <= n.lookupCount that leaves n live returns
\* false with n.lookupCount lower by exactly k; nodes, n's ParentSet, n's
\* children and every other node are as before.
C8_RemoveRefKeepsLive ==
    \A t \in Threads :
       StaysOf(t) =>
          LET n == last[t].call.n
              was == pre[t].heap[n]
          IN /\ ~last[t].ok
             /\ heap[n].lookupCount = was.lookupCount - last[t].call.nlookup
             /\ nodes = pre[t].nodes
             /\ heap[n].parents = was.parents
             /\ heap[n].children = was.children
             /\ \A o \in Objs \ {n} : heap[o] = pre[t].heap[o]

\* removeRef(n, 2) has returned from a node that stays live
C8_Witness ==
    \E t \in Threads :
       /\ StaysOf(t)
       /\ last[t].call.nlookup = 2
       /\ ~last[t].ok

\* ---- C9
\* C9: rmChild(parent, name) on a name that maps to a child c returns, and
\* returns true; parent.children has lost name, c's ParentSet has lost
\* (name, parent) and nothing else, c.lookupCount is as before, and c is in
\* nodes if its lookupCount is > 0.
C9_RmChildUnlinks ==
    \A t \in Threads :
       LET f == IF stack[t] # << >> THEN stack[t][1] ELSE last[t].call
           c == Child(pre[t].heap[f.parent], f.name)
           e == ParentEntry(f.name, f.parent)
           case == f.fn = "rmChild" /\ c # Nil
       IN /\ case /\ stack[t] # << >> => ~SelfBlocked(t)
          /\ case /\ Ret(t, "rmChild") =>
                /\ last[t].ok
                /\ f.name \notin DOMAIN heap[f.parent].children
                /\ ParentsSet(heap[c].parents) =
                      ParentsSet(pre[t].heap[c].parents) \ {e}
                /\ heap[c].lookupCount = pre[t].heap[c].lookupCount
                /\ heap[c].lookupCount > 0 => InMap(c)

\* ---- C10
\* C10: mvChild(parent, name, newParent, newName, TRUE) on a name that maps
\* to a child c returns, and returns true; newParent.children[newName] = c,
\* parent.children has lost name unless the two places are one, the newest
\* entry of c's ParentSet is (newName, newParent), its other entries but
\* (name, parent) are kept, and a node displaced from the destination has
\* lost (newName, newParent).
C10_MvChildOverwrites ==
    \A t \in Threads :
       LET f == IF stack[t] # << >> THEN stack[t][1] ELSE last[t].call
           c == Child(pre[t].heap[f.parent], f.name)
           d == Child(pre[t].heap[f.newParent], f.newName)
           from == ParentEntry(f.name, f.parent)
           to == ParentEntry(f.newName, f.newParent)
           case == f.fn = "mvChild" /\ f.overwrite /\ c # Nil
       IN /\ case /\ stack[t] # << >> => ~SelfBlocked(t)
          /\ case /\ Ret(t, "mvChild") =>
                /\ last[t].ok
                /\ Child(heap[f.newParent], f.newName) = c
                /\ from # to => f.name \notin DOMAIN heap[f.parent].children
                /\ ParentsGet(heap[c].parents) = to
                /\ ParentsSet(pre[t].heap[c].parents) \ {from} \subseteq
                      ParentsSet(heap[c].parents)
                /\ d # Nil => to \notin ParentsSet(heap[d].parents)

\* ---- C11
\* two graphs agree on what C11 compares: the nodes map, and per node the
\* children, the parent entries and the lookupCount
SameGraph(ns1, h1, ns2, h2) ==
    /\ ns1 = ns2
    /\ \A o \in Objs :
          /\ h1[o].children = h2[o].children
          /\ ParentsSet(h1[o].parents) = ParentsSet(h2[o].parents)
          /\ h1[o].lookupCount = h2[o].lookupCount

\* C11: mvChild(p, n, p', n', TRUE) on a name that maps to a child c
\* returns, and returns true with c at (p', n'); the move back,
\* mvChild(p', n', p, n, TRUE), applied to the graph it has left then gives
\* the nodes map, children, parent entries and lookupCounts of before.
C11_MvChildThereAndBack ==
    \A t \in Threads :
       LET f == IF stack[t] # << >> THEN stack[t][1] ELSE last[t].call
           c == Child(pre[t].heap[f.parent], f.name)
           case == f.fn = "mvChild" /\ f.overwrite /\ c # Nil
       IN /\ case => ~(Called(t, "mvChild") /\ SelfBlocked(t))
          /\ case /\ Ret(t, "mvChild") =>
                /\ last[t].ok
                /\ Child(heap[f.newParent], f.newName) = c
                /\ SameGraph(nodes,
                             MvChildCommit(heap, f.newParent, f.newName,
                                           f.parent, f.name, c,
                                           Child(heap[f.parent], f.name), now),
                             pre[t].nodes, pre[t].heap)

\* ---- C12
\* C12: mvChild(parent, name, newParent, newName, TRUE) on a name that
\* parent.children lacks returns, and returns true; a node d that sat at
\* (newParent, newName) is out of newParent.children and has lost the entry
\* (newName, newParent), and newParent.children has no entry for newName.
C12_MvChildSourceMissing ==
    \A t \in Threads :
       LET f == IF stack[t] # << >> THEN stack[t][1] ELSE last[t].call
           d == Child(pre[t].heap[f.newParent], f.newName)
           case == /\ f.fn = "mvChild"
                   /\ f.overwrite
                   /\ Child(pre[t].heap[f.parent], f.name) = Nil
       IN /\ case /\ Called(t, "mvChild") /\ locking[t] # << >> =>
                mu[Head(locking[t])] # t
          /\ case /\ Ret(t, "mvChild") =>
                /\ last[t].ok
                /\ f.newName \notin DOMAIN heap[f.newParent].children
                /\ d # Nil =>
                      ParentEntry(f.newName, f.newParent) \notin
                         ParentsSet(heap[d].parents)

\* ---- C13
\* C13: mvChild with overwrite false on a destination (newParent, newName)
\* that holds a node returns, and returns false; nodes and every node's
\* children, ParentSet, lookupCount and revision are as before the call.
C13_MvChildNoOverwrite ==
    \A t \in Threads :
       LET f == IF stack[t] # << >> THEN stack[t][1] ELSE last[t].call
           case == /\ f.fn = "mvChild"
                   /\ ~f.overwrite
                   /\ Child(pre[t].heap[f.newParent], f.newName) # Nil
       IN /\ case /\ stack[t] # << >> /\ status[t] = "run" => ENABLED Step(t)
          /\ case /\ Ret(t, "mvChild") =>
                /\ ~last[t].ok
                /\ nodes = pre[t].nodes
                /\ heap = pre[t].heap

\* ---- C14
\* the outermost call of goroutine t, in progress or returned, is
\* rmChild(parent, name) on a name that parent.children lacked
RmChildOfMissing(t) ==
    LET f == IF stack[t] # << >> THEN stack[t][1] ELSE last[t].call
    IN /\ f.fn = "rmChild"
       /\ f.name \notin DOMAIN pre[t].heap[f.parent].children

\* C14: rmChild(parent, name) on a name that parent.children lacks returns,
\* and returns false; nodes and every node's children, ParentSet,
\* lookupCount and revision are as before the call.
C14_RmChildMissing ==
    \A t \in Threads :
       /\ RmChildOfMissing(t) /\ stack[t] # << >> /\ status[t] = "run" =>
             ENABLED Step(t)
       /\ RmChildOfMissing(t) /\ Ret(t, "rmChild") =>
             /\ ~last[t].ok
             /\ nodes = pre[t].nodes
             /\ heap = pre[t].heap

\* rmChild has returned from a directory that has a child of another name
C14_Witness ==
    \E t \in Threads :
       /\ RmChildOfMissing(t)
       /\ Ret(t, "rmChild")
       /\ ~last[t].ok
       /\ DOMAIN heap[last[t].call.parent].children # {}


\* the names on the chain of newest parent entries that starts at o, the
\* name next to the end of the chain first, and the inode the chain ends at:
\* the root, or an inode whose newest entry names no parent
RECURSIVE NewestChain(_, _, _)
NewestChain(h, o, k) ==
    LET pe == h[o].parents.newest IN
    IF o = root \/ pe.node = Nil \/ k = 0
    THEN [names |-> << >>, end |-> o]
    ELSE LET c == NewestChain(h, pe.node, k - 1)
         IN [names |-> Append(c.names, pe.name), end |-> c.end]

\* s begins with p
HasPrefix(s, p) == Len(s) >= Len(p) /\ SubSeq(s, 1, Len(p)) = p

\* C15: pathOf(root) is the empty string; for an inode whose chain of newest
\* parent entries reaches the root, pathOf is the names of the chain, the
\* one next to the root first, joined by "/"; for an inode whose chain ends
\* at an inode without parents, pathOf begins ".pathfs.orphaned/<ino>"
C15_PathOf ==
    \A t \in Threads :
       Ret(t, "pathOf") =>
          LET n == last[t].call.n
              c == NewestChain(heap, n, MaxObj)
          IN /\ n = root => last[t].path = ""
             /\ c.end = root => last[t].path = Join(c.names, "/")
             /\ c.end # root /\ heap[c.end].parents.newest.node = Nil =>
                   HasPrefix(last[t].path,
                             ".pathfs.orphaned/" \o ToString(heap[n].ino))

\* pathOf has returned a path of two names, and a placeholder for an inode
\* under an orphaned directory
C15_Witness ==
    \E t \in Threads :
       /\ Ret(t, "pathOf")
       /\ \/ last[t].path = "a/b"
          \/ /\ Len(last[t].call.segments) = 1
             /\ HasPrefix(last[t].path, ".pathfs.orphaned/")

\* the addChild calls that have returned name ino i this many times
RECURSIVE CallsNaming(_, _)
CallsNaming(T, i) ==
    IF T = {} THEN 0
    ELSE LET t == CHOOSE u \in T : TRUE
         IN (IF last[t].call.ino = i THEN 1 ELSE 0) + CallsNaming(T \ {t}, i)

\* C16: addChild calls that run concurrently, with no removal, all return;
\* after the last return nodes holds one node for each ino they named, its
\* lookupCount has grown by the number of calls that named it, and each
\* (parent, name) of a call, the names being distinct, maps to the node of
\* the call's ino
C16_ConcurrentAddChild ==
    /\ \A t \in Threads : Called(t, "addChild") => ~SelfBlocked(t)
    /\ (/\ \A t \in Threads : Ret(t, "addChild")
        /\ \A t, u \in Threads : pre[t] = pre[u])
       => \A t \in Threads :
             LET f == last[t].call
                 o == nodes[f.ino]
                 was == IF pre[t].nodes[f.ino] = Nil THEN 0
                        ELSE pre[t].heap[pre[t].nodes[f.ino]].lookupCount
             IN /\ o # Nil /\ last[t].node = o /\ heap[o].ino = f.ino
                /\ \A q \in Objs \ {o} : heap[q].ino = f.ino => ~InMap(q)
                /\ heap[o].lookupCount = was + CallsNaming(Threads, f.ino)
                /\ (\A u \in Threads \ {t} :
                       <<last[u].call.parent, last[u].call.name>>
                          # <<f.parent, f.name>>)
                   => Child(heap[f.parent], f.name) = o

\* C17: Forget(ino, nlookup) for an ino that nodes does not hold does not
\* panic, and it returns with the graph as it was
C17_ForgetNonExistent ==
    \A t \in Threads :
       /\ Called(t, "Forget") /\ pre[t].nodes[stack[t][1].ino] = Nil
             => status[t] # "panic"
       /\ Ret(t, "Forget") /\ pre[t].nodes[last[t].call.ino] = Nil
             => heap = pre[t].heap /\ nodes = pre[t].nodes

\* C18: Lookup returns; when the backend answered with ino i, the parent's
\* children map holds under the name the node of ino i, whose lookupCount
\* has grown by one; when the backend failed, Lookup returns the failure, no
\* lookupCount has grown and the parent has no child of that name
C18_Lookup ==
    \A t \in Threads :
       /\ Called(t, "Lookup") => ~SelfBlocked(t)
       /\ Ret(t, "Lookup") =>
             LET f == last[t].call
                 c == Child(heap[f.parent], f.name)
                 was == IF pre[t].nodes[f.attrIno] = Nil THEN 0
                        ELSE pre[t].heap[pre[t].nodes[f.attrIno]].lookupCount
             IN IF f.code
                THEN /\ last[t].ok
                     /\ c # Nil /\ c = nodes[f.attrIno]
                     /\ heap[c].ino = f.attrIno
                     /\ heap[c].lookupCount = was + 1
                ELSE /\ ~last[t].ok
                     /\ \A o \in Objs :
                           heap[o].lookupCount <= pre[t].heap[o].lookupCount
                     /\ c = Nil

\* the children of an inode as (name, ino) pairs and its parent entries as
\* (name, ino of the parent) pairs
ChildInos(h, o) ==
    {<<n, h[h[o].children[n]].ino>> : n \in DOMAIN h[o].children}
ParentInos(h, o) ==
    {<<e.name, h[e.node].ino>> : e \in ParentsSet(h[o].parents)}

\* two bridges hold the same inodes: as many, and for every ino the same
\* lookupCount, revision, file type, children and parent entries
SameInodes(ns1, h1, ns2, h2) ==
    /\ Cardinality({i \in Inos : ns1[i] # Nil})
          = Cardinality({i \in Inos : ns2[i] # Nil})
    /\ \A i \in Inos :
          ns1[i] # Nil =>
             /\ ns2[i] # Nil
             /\ h1[ns1[i]].lookupCount = h2[ns2[i]].lookupCount
             /\ h1[ns1[i]].revision = h2[ns2[i]].revision
             /\ IsDir(h1[ns1[i]]) = IsDir(h2[ns2[i]])
             /\ ChildInos(h1, ns1[i]) = ChildInos(h2, ns2[i])
             /\ ParentInos(h1, ns1[i]) = ParentInos(h2, ns2[i])

\* the receiving bridge serves: every record of the dump was added and
\* Finished succeeded
Copied ==
    /\ sender.nodes # << >>
    /\ stream = {}
    /\ phase = "serving"

\* C19: after a dump, a restore of every record into an empty bridge and a
\* successful Finished, the receiver holds the inodes of the dumped graph:
\* as many nodes, and for every ino the same lookupCount, revision, file
\* type, children and parent entries
C19_DumpRestore ==
    Copied => SameInodes(sender.nodes, sender.heap, nodes, heap)

\* the children maps and the parent entries of the inodes in ns mirror each
\* other: every entry (name, p) of an inode has p in ns with the inode as
\* p.children[name], and every child is in ns with an entry for its parent
Mirrored(ns, h) ==
    \A i \in Inos :
       ns[i] # Nil =>
          LET o == ns[i] IN
          /\ \A e \in ParentsSet(h[o].parents) :
                /\ ns[h[e.node].ino] = e.node
                /\ e.name \in DOMAIN h[e.node].children
                /\ h[e.node].children[e.name] = o
          /\ \A n \in DOMAIN h[o].children :
                LET c == h[o].children[n] IN
                /\ ns[h[c].ino] = c
                /\ ParentEntry(n, o) \in ParentsSet(h[c].parents)

\* C19, amended: the round trip gives the same inodes for a dumped graph
\* whose children maps and parent entries mirror each other
C19_DumpRestoreMirrored ==
    Copied /\ Mirrored(sender.nodes, sender.heap)
       => SameInodes(sender.nodes, sender.heap, nodes, heap)

\* a graph with an orphan (looked up, no parent) and a node hard-linked
\* under two names has made the round trip
C19_Witness ==
    /\ Copied
    /\ Mirrored(sender.nodes, sender.heap)
    /\ \E i, j \in Inos \ {RootIno} :
          /\ sender.nodes[i] # Nil /\ sender.nodes[j] # Nil
          /\ sender.heap[sender.nodes[i]].lookupCount > 0
          /\ ParentsSet(sender.heap[sender.nodes[i]].parents) = {}
          /\ Cardinality(ParentsSet(sender.heap[sender.nodes[j]].parents)) = 2

\* C20: Finished fails with "root inode not found" when nodes holds no
\* node of ino 1; otherwise it fails with "expected N inodes, but only got M
\* inodes" when fewer records were added than the header counts; otherwise
\* it succeeds, root is nodes[1] and nodeCountHigh is the number of nodes
C20_Finished ==
    [][phase = "restoring" /\ phase' \in {"serving", "failed"} =>
          IF nodes[RootIno] = Nil
          THEN phase' = "failed" /\ err' = "root inode not found"
          ELSE IF addNodeCount < nodeCount
          THEN /\ phase' = "failed"
               /\ err' = "expected " \o ToString(nodeCount)
                            \o " inodes, but only got "
                            \o ToString(addNodeCount) \o " inodes"
          ELSE /\ phase' = "serving"
               /\ err' = ""
               /\ root' = nodes'[RootIno]
               /\ root' # Nil
               /\ nodeCountHigh' = Cardinality({i \in Inos : nodes'[i] # Nil})]_vars

\* Finished has failed on a graph with a root, fed fewer records than the
\* header of the dump counts
C20_Witness ==
    /\ phase = "failed"
    /\ nodes[RootIno] # Nil
    /\ addNodeCount < nodeCount
    /\ err = ExpectedGot(nodeCount, addNodeCount)

\* C21: registerFile never returns 0 and never returns a handle that is
\* held (returned by registerFile and not released since), and freeFiles
\* lists only handles that nobody holds; unregisterFile may be called again
\* on a handle, and on 0
C21_HandlesDistinct ==
    /\ fop.op = "registerFile" =>
          fop.fh # 0 /\ fop.fh \notin fpre.held
    /\ \A i \in 1..Len(freeFiles) : freeFiles[i] \notin held

\* C22: with a free list that is not empty, registerFile returns the handle
\* that was freed last (the one the latest unregisterFile was called on,
\* when no registerFile came between), takes it off the free list and does
\* not grow files; with an empty free list it appends a slot and returns
\* the index of that slot
C22_RegisterReusesLastFreed ==
    fop.op = "registerFile" =>
       LET n == Len(fpre.freeFiles) IN
       IF n > 0
       THEN /\ fop.fh = fpre.freeFiles[n]
            /\ fpre.freed # -1 => fop.fh = fpre.freed
            /\ freeFiles = SubSeq(fpre.freeFiles, 1, n - 1)
            /\ Len(files) = fpre.slots
       ELSE /\ fop.fh = fpre.slots
            /\ Len(files) = fpre.slots + 1
            /\ freeFiles = << >>

\* registerFile has taken a handle from a free list of two handles
C22_Witness ==
    /\ fop.op = "registerFile"
    /\ Len(fpre.freeFiles) = 2
    /\ fpre.freeFiles[1] # fpre.freeFiles[2]
    /\ fop.fh = fpre.freeFiles[2]

\* the entries with a name, in order
Named(es) == SelectSeq(es, LAMBDA e : e # "")

\* s is the beginning of q
IsPrefix(s, q) == Len(s) <= Len(q) /\ SubSeq(q, 1, Len(s)) = s

\* C23: ReadDir on an open directory handle calls the backend's listing
\* exactly when the slot has no cached stream or the offset is 0; with an
\* offset that is not 0 on a slot with a cached stream it answers OK from
\* the cache, which it leaves as it is, and with no entries when the offset
\* is greater than the length of the cache
C23_ReadDirCaches ==
    fop.op = "ReadDir" /\ fop.fh \in fpre.held =>
       LET cached == fpre.stream
           off == fop.offset
       IN /\ fop.called <=> (cached = << >> \/ off = 0)
          /\ cached # << >> /\ off # 0 =>
                /\ ~fop.called
                /\ fop.code = "OK"
                /\ files[fop.fh + 1].stream = cached
                /\ IF off > Len(cached)
                   THEN fop.entries = << >>
                   ELSE IsPrefix(fop.entries,
                                 Named(SubSeq(cached, off + 1, Len(cached))))

\* ReadDir has answered from the cache, for an offset past its end
C23_Witness ==
    /\ fop.op = "ReadDir"
    /\ fop.fh \in fpre.held
    /\ fpre.stream # << >>
    /\ fop.offset > Len(fpre.stream)
    /\ ~fop.called
    /\ fop.entries = << >>

\* C24: compactMemory changes no entry of nodes and no inode; it sets
\* nodeCountHigh to the number of nodes when nodeCountHigh is greater than
\* a hundred times that number, and leaves it as it is otherwise
C24_CompactMemory ==
    [][\A t \in Threads :
          (/\ stack[t] # << >>
           /\ Top(t).fn = "Forget" /\ Top(t).pc = "compact"
           /\ stack'[t] # stack[t])
          => /\ nodes' = nodes
             /\ heap' = heap
             /\ LET n == Cardinality({i \in Inos : nodes[i] # Nil})
                IN nodeCountHigh' = IF nodeCountHigh > n * 100
                                    THEN n ELSE nodeCountHigh]_vars

\* Forget has removed an inode and compactMemory has kept a high-water mark
\* above the number of nodes
C24_Witness ==
    \E t \in Threads :
       /\ Ret(t, "Forget")
       /\ last[t].ok
       /\ NodeCount > 0
       /\ nodeCountHigh > NodeCount

\* C29: once removeRef has removed the node object n from nodes, a later
\* removeRef(n, 0) on that object does not change nodes: it deletes no node
\* that was installed under the ino of n since
C29_RemovedOnce ==
    [][\A t \in Threads :
          (/\ stack[t] # << >>
           /\ Top(t).fn = "removeRef" /\ Top(t).nlookup = 0
           /\ ~InMap(Top(t).n)
           /\ stack'[t] # stack[t])
          => nodes' = nodes]_vars

\* ------------------------------------------------- a ParentSet on its own
\* add called on one inodeParents with any entry, MaxAdds times at most
ParentsAddCall ==
    /\ Len(addLog) < MaxAdds
    /\ \E name \in Names, node \in Objs :
          LET e == ParentEntry(name, node)
          IN /\ parents' = ParentsAdd(parents, e, now)
             /\ now' = IF ParentsDisplaces(parents, e) THEN now + 1 ELSE now
             /\ addLog' = Append(addLog, e)
             /\ lastDel' = NoDelete
    /\ UNCHANGED <<heap, allocated, root, nodes, nodeCountHigh, mu, bmu,
                   stack, locking, status, pre, last, restorer, table, recLog>>

ParentsNext == ParentsAddCall

ParentsSpec == SeqInit /\ [][ParentsNext]_vars

\* C25: after any sequence of add calls, get returns the entry of the most
\* recent call and count is the number of distinct entries added; adding an
\* entry again makes it the newest and does not raise count
C25_ParentSetAdd ==
    addLog # << >> =>
        /\ ParentsGet(parents) = addLog[Len(addLog)]
        /\ ParentsCount(parents)
              = Cardinality({addLog[i] : i \in 1..Len(addLog)})

\* an entry that had been displaced was added again
C25_Witness ==
    /\ Len(addLog) = 3
    /\ addLog[1] = addLog[3]
    /\ addLog[1] # addLog[2]
    /\ ParentsGet(parents) = addLog[1]
    /\ ParentsCount(parents) = 2

\* C26: addChild with the name "." or ".." panics; the call creates no
\* node, changes no lookupCount, children map or ParentSet, and holds no
\* lock at any point
C26_AddChildVirtualName ==
    [][\A t \in Threads :
          (/\ Called(t, "addChild")
           /\ stack[t][1].name \in {".", ".."})
          => /\ \A o \in Objs : mu[o] # t
             /\ bmu # t
             /\ locking[t] = << >>
             /\ (stack'[t] # stack[t] \/ status'[t] # status[t])
                   => /\ status'[t] = "panic"
                      /\ stack'[t] = stack[t]
                      /\ heap' = heap
                      /\ allocated' = allocated
                      /\ nodes' = nodes
                      /\ mu' = mu /\ bmu' = bmu
                      /\ locking' = locking]_vars

\* addChild was called with "." or ".." and has panicked
C26_Witness ==
    \E t \in Threads :
       /\ Called(t, "addChild")
       /\ stack[t][1].name \in {".", ".."}
       /\ status[t] = "panic"
       /\ heap = pre[t].heap
       /\ nodes = pre[t].nodes

\* C27: removeRef(n, nlookup) with nlookup greater than n.lookupCount
\* panics; it leaves n.lookupCount as it was and n in nodes
C27_RemoveRefTooMany ==
    [][\A t \in Threads :
          (/\ stack[t] # << >>
           /\ Top(t).fn = "removeRef" /\ Top(t).pc = "dec"
           /\ Top(t).nlookup > heap[Top(t).n].lookupCount
           /\ (stack'[t] # stack[t] \/ status'[t] # status[t]))
          => /\ status'[t] = "panic"
             /\ stack'[t] = stack[t]
             /\ heap'[Top(t).n].lookupCount = heap[Top(t).n].lookupCount
             /\ nodes' = nodes]_vars

\* removeRef was called on a node of the map with too large a count and has
\* panicked
C27_Witness ==
    \E t \in Threads :
       /\ stack[t] # << >>
       /\ Top(t).fn = "removeRef"
       /\ status[t] = "panic"
       /\ Top(t).nlookup > heap[Top(t).n].lookupCount
       /\ heap[Top(t).n].lookupCount > 0
       /\ InMap(Top(t).n)

\* ------------------------------------------------------- fair scheduling
\* every goroutine that can take a step takes one, and a goroutine waiting
\* in Lock() gets the mutex when it is free again and again (sync.Mutex
\* hands a starving waiter the mutex)
Fairness ==
    \A t \in Threads : WF_vars(Step(t)) /\ SF_vars(Acquire(t))

FairSpec == Spec /\ Fairness

\* the mutexes goroutine t holds
HeldBy(t) == {o \in Objs : mu[o] = t}

\* C28: when addChild, rmChild, mvChild or removeRef comes to its return,
\* the goroutine gets past the unlock calls and then holds no inode mutex
\* and not b.mu
C28_LocksReleased ==
    \A t \in Threads :
       /\ ~SelfBlocked(t)
       /\ Idle(t) => HeldBy(t) = {} /\ bmu # t

\* C30: under fair scheduling every call of addChild, rmChild, mvChild or
\* removeRef eventually returns, unless a panic ends the process
C30_EveryCallReturns ==
    \A t \in Threads :
       (stack[t] # << >>)
          ~> (stack[t] = << >> \/ \E u \in Threads : status[u] = "panic")

\* ------------------------------------------- goroutines on a restored tree
\* the records of a stream that hangs inodes under the root directory, each
\* looked up once
LinkedInodes ==
    {d \in DumpInodes : /\ d.ino # RootIno
                        /\ d.lookupCount = 1
                        /\ d.revision = 1
                        /\ Len(d.parents) = 1
                        /\ d.parents[1].node = RootIno}

\* AddInode for streams of MaxRecs such records
AddLinkedInode ==
    /\ addNodeCount < MaxRecs
    /\ sender.nodes = << >>
    /\ \E d \in LinkedInodes : AddInodeOf(d)
    /\ UNCHANGED stream

\* NThreads goroutines remove entries (rmChild) and forget inodes
\* (removeRef) on the graph NewPathFS built or on a tree a restore built
RaceNext ==
    \/ Restore \/ AddLinkedInode \/ Finished
    \/ \E t \in Threads :
          \/ CallRmChild(t) \/ CallRemoveRef(t)
          \/ RmChild(t) \/ RemoveRef(t) \/ Acquire(t)

RaceSpec == SeqInit /\ [][RaceNext]_vars

\* ---- C31
\* the directories that were live when goroutine t's outermost call began
\* and are not live now
LeftDead(t) ==
    {o \in allocated : /\ IsDir(heap[o])
                       /\ IsLive(pre[t].heap[o])
                       /\ ~IsLive(heap[o])}

\* C31: rmChild, mvChild and removeRef come to their return, and by then
\* every directory the call left with lookupCount 0 and no children is out
\* of nodes, has an empty ParentSet and is no child of a former parent; the
\* same holds for every ancestor that lost its liveness with it
C31_DeadDirectoriesUnwind ==
    \A t \in Threads :
       /\ \A fn \in {"rmChild", "mvChild", "removeRef"} :
             Called(t, fn) /\ LeftDead(t) # {} => ~SelfBlocked(t)
       /\ \A fn \in {"rmChild", "mvChild", "removeRef"} :
             Ret(t, fn) =>
                \A o \in LeftDead(t) :
                   /\ ~InMap(o)
                   /\ ParentsCount(heap[o].parents) = 0
                   /\ \A e \in ParentsSet(pre[t].heap[o].parents) :
                         Child(heap[e.node], e.name) # o

\* ---- C32
\* C32: when rmChild or mvChild holds all its node locks and finds the
\* revisions of its snapshot unchanged, parent.children[name] is the child
\* of the snapshot and, for mvChild, newParent.children[newName] is the
\* destChild of the snapshot; a call that found a revision changed is back
\* at the top of its loop with none of its locks held and has changed
\* nothing
C32_SnapshotStillValid ==
    \A t \in Threads :
       stack[t] # << >> =>
          LET f == Top(t)
          IN /\ (/\ f.fn = "rmChild" /\ f.pc = "check" /\ locking[t] = << >>
                 /\ heap[f.parent].revision = f.rev)
                => Child(heap[f.parent], f.name) = f.child
             /\ (/\ f.fn = "mvChild" /\ f.pc = "check" /\ locking[t] = << >>
                 /\ heap[f.parent].revision = f.rev
                 /\ heap[f.newParent].revision = f.nRev)
                => /\ Child(heap[f.parent], f.name) = f.child
                   /\ Child(heap[f.newParent], f.newName) = f.destChild
             /\ (f.fn \in {"rmChild", "mvChild"} /\ f.pc = "entry")
                => HeldBy(t) = {}

\* ---- C33
\* C33: no removeRef dies at the check "lookupCount changed" of line 727:
\* from the delete of line 693 until the parents of n are cleared,
\* n.lookupCount is 0 whatever the other goroutines do
C33_LookupCountUnchanged ==
    \A t \in Threads :
       (stack[t] # << >> /\ Top(t).fn = "removeRef") =>
          /\ ~(status[t] = "panic" /\ Top(t).pc = "group")
          /\ Top(t).pc \in {"snap", "group"} =>
                heap[Top(t).n].lookupCount = 0

\* removeRef has deleted n from nodes and unlocked it, and another
\* goroutine's addChild of the ino of n has since found nodes without it
C33_Witness ==
    \E t \in Threads, u \in Threads :
       /\ stack[t] # << >> /\ stack[u] # << >>
       /\ Top(t).fn = "removeRef" /\ Top(t).pc = "group"
       /\ locking[t] # << >>
       /\ Top(u).fn = "addChild" /\ Top(u).pc = "new"
       /\ Top(u).ino = heap[Top(t).n].ino
       /\ Top(u).child = Nil

\* ---- C34
\* the nodes met when following the newest ParentSet entries upward from o,
\* o first, for k steps at most
RECURSIVE NewestWalk(_, _, _)
NewestWalk(h, o, k) ==
    LET pe == h[o].parents.newest IN
    IF pe.node = Nil \/ k = 0 THEN <<o>>
    ELSE <<o>> \o NewestWalk(h, pe.node, k - 1)

\* C34: following the newest ParentSet entries upward from any node never
\* meets a node twice, so the walk ends at a node that has no parent
C34_NoCycle ==
    \A o \in allocated :
       LET w == NewestWalk(heap, o, MaxObj)
       IN /\ \A i \in 1..Len(w) : \A j \in 1..Len(w) : w[i] = w[j] => i = j
          /\ heap[w[Len(w)]].parents.newest.node = Nil

\* a walk of one step: a directory that addChild has put under the root
C34_Witness ==
    \E o \in allocated :
       LET w == NewestWalk(heap, o, MaxObj)
       IN /\ Len(w) = 2 /\ w[2] = root
          /\ InMap(o) /\ InMap(root)
          /\ IsDir(heap[o])

ChildrenMirrored(h) ==
    \A p \in allocated :
       \A name \in DOMAIN h[p].children :
          ParentEntry(name, p) \in ParentsSet(h[h[p].children[name]].parents)

ParentsDeleteCall ==
    /\ \E name \in Names, node \in Objs :
          LET e == ParentEntry(name, node)
          IN /\ parents' = ParentsDelete(parents, e)
             /\ lastDel' = [done |-> TRUE, entry |-> e, before |-> parents]
    /\ UNCHANGED <<heap, allocated, root, nodes, nodeCountHigh, now, mu, bmu,
                   stack, locking, status, pre, last, restorer, table, addLog,
                   recLog>>

ParentsEditNext == ParentsAddCall \/ ParentsDeleteCall

ParentsEditSpec == SeqInit /\ [][ParentsEditNext]_vars

\* C38: delete(e) of the newest entry, when other entries exist, makes
\* newest the entry displaced last (the greatest stamp) and lowers count by
\* one; of another entry of the set, removes it and keeps newest; of the only
\* entry, empties the set; of an entry that is not in the set, changes
\* nothing
C38_ParentSetDelete ==
    lastDel.done =>
       LET b == lastDel.before
           e == lastDel.entry
       IN IF e \notin ParentsSet(b)
          THEN parents = b
          ELSE IF e # b.newest
          THEN /\ ParentsGet(parents) = b.newest
               /\ ParentsSet(parents) = ParentsSet(b) \ {e}
               /\ ParentsCount(parents) = ParentsCount(b) - 1
          ELSE IF DOMAIN b.other = {}
          THEN /\ ParentsCount(parents) = 0
               /\ ParentsSet(parents) = {}
          ELSE /\ ParentsGet(parents) \in DOMAIN b.other
               /\ \A k \in DOMAIN b.other :
                     b.other[k] <= b.other[ParentsGet(parents)]
               /\ ParentsSet(parents) = ParentsSet(b) \ {e}
               /\ ParentsCount(parents) = ParentsCount(b) - 1

\* the newest of three entries was deleted and the one displaced last took
\* its place
C38_Witness ==
    /\ lastDel.done
    /\ ParentsCount(lastDel.before) = 3
    /\ lastDel.entry = lastDel.before.newest
    /\ ParentsCount(parents) = 2
    /\ ParentsGet(parents) = addLog[2]

\* ---- C37
\* AddInode for streams of MaxTreeRecs records, each kept in recLog
AddLoggedInode ==
    /\ phase = "restoring"
    /\ addNodeCount < MaxTreeRecs
    /\ sender.nodes = << >>
    /\ \E d \in TreeInodes :
          \E free \in {SortedSeq(Objs \ allocated)} :
             /\ Len(free) >= NeedObjs(nodes, d)
             /\ LET r == AddInodeResult(RState(heap, nodes, allocated, now, TRUE),
                                        d, free)
                IN /\ heap' = r.heap
                   /\ nodes' = r.nodes
                   /\ allocated' = r.allocated
                   /\ now' = r.now
                   /\ IF r.ok
                      THEN /\ addNodeCount' = addNodeCount + 1
                           /\ phase' = phase
                      ELSE /\ addNodeCount' = addNodeCount
                           /\ phase' = "panicked"
             /\ recLog' = Append(recLog, d)
    /\ UNCHANGED <<root, nodeCountHigh, mu, bmu, stack, locking, status,
                   pre, last, nodeCount, dumper, table, parents, addLog,
                   lastDel>>

\* a restore is fed a stream of records and finished
OrderNext == Restore \/ AddLoggedInode \/ Finished

OrderSpec == SeqInit /\ [][OrderNext]_vars

\* the bridge after Restore: b.nodes is empty, and the inode NewPathFS made
\* is the one object in use
Emptied ==
    RState(pre[1].heap, [i \in Inos |-> Nil],
           {o \in Objs : pre[1].heap[o].ino # 0}, 1, TRUE)

\* the bridge after AddInode was called with the records of q in turn; a
\* panic ends the restore
RECURSIVE RestoreAll(_, _)
RestoreAll(st, q) ==
    IF q = << >> \/ ~st.ok THEN st
    ELSE RestoreAll(AddInodeResult(st, Head(q), SortedSeq(Objs \ st.allocated)),
                    Tail(q))

\* the orders a stream of records can come in
Orders(q) ==
    {[i \in 1..Len(q) |-> q[f[i]]] :
        f \in {g \in [1..Len(q) -> 1..Len(q)] :
                  \A i, j \in 1..Len(q) : g[i] = g[j] => i = j}}

\* the newest parent entry of the inode of ino i, as (name, ino)
NewestIno(ns, h, i) ==
    LET e == h[ns[i]].parents.newest
    IN IF e.node = Nil THEN <<"", 0>> ELSE <<e.name, h[e.node].ino>>

\* the restore of the records in the order q gives the graph of the bridge
SameRestored(q) ==
    LET r == RestoreAll(Emptied, q)
    IN /\ r.ok
       /\ SameInodes(r.nodes, r.heap, nodes, heap)
       /\ \A i \in Inos :
             nodes[i] # Nil => NewestIno(r.nodes, r.heap, i) = NewestIno(nodes, heap, i)

\* the records are those of a dump: one for every inode of b.nodes, and
\* every inode named as a parent a directory
Dumped(q) ==
    \A i, j \in 1..Len(q) :
       /\ q[i].ino = q[j].ino => i = j
       /\ \A k \in 1..Len(q[i].parents) :
             q[i].parents[k].node = q[j].ino => q[j].isDir

\* the records are those of a dump of a graph whose children maps and
\* ParentSets mirror each other: no name of a directory is claimed by the
\* records of two inodes
Consistent(q) ==
    /\ Dumped(q)
    /\ \A i, j \in 1..Len(q) :
          \A k \in 1..Len(q[i].parents), l \in 1..Len(q[j].parents) :
             q[i].parents[k] = q[j].parents[l] => i = j

\* C37 as stated: whatever graph the records were dumped from, every order
\* of delivery followed by Finished gives the graph this order gave
C37_Original ==
    (phase \in {"serving", "failed"} /\ Dumped(recLog)) =>
       \A q \in Orders(recLog) : SameRestored(q)

\* C37: for the records of a dump of a graph whose children maps and
\* ParentSets mirror each other, every order of delivery followed by
\* Finished gives the same nodes, and for every node the same lookupCount,
\* revision, file type, children, parent entries and newest entry
C37_RestoreAnyOrder ==
    (phase \in {"serving", "failed"} /\ Consistent(recLog)) =>
       \A q \in Orders(recLog) : SameRestored(q)

\* a child was delivered before its parent, the parent before the root's
\* record would have come, and Finished succeeded
C37_Witness ==
    /\ phase = "serving"
    /\ Len(recLog) = 2
    /\ Consistent(recLog)
    /\ recLog[1].parents # << >>
    /\ recLog[1].parents[Len(recLog[1].parents)].node = recLog[2].ino
    /\ recLog[2].parents # << >>

\* ---- C39
\* the lookupCount, the ParentSet or the children of o differ between h1 and h2
Touched(h1, h2, o) ==
    \/ h1[o].lookupCount # h2[o].lookupCount
    \/ h1[o].parents # h2[o].parents
    \/ h1[o].children # h2[o].children

\* from h1 to h2 no revision went back, and every inode whose fields differ
\* has a higher revision
RevisionKept(h1, h2) ==
    \A o \in Objs :
       /\ h2[o].revision >= h1[o].revision
       /\ Touched(h1, h2, o) => h2[o].revision > h1[o].revision

\* lines 797-816 of mvChild keep the revisions on the graph h, whatever
\* directories and names the rename is about
MvChildKept(h, ns) ==
    \A parent, newParent \in {o \in Objs : /\ h[o].ino \in Inos
                                            /\ ns[h[o].ino] = o
                                            /\ IsDir(h[o])} :
       \A name, newName \in Names :
          RevisionKept(h, MvChildCommit(h, parent, name, newParent, newName,
                                        Child(h[parent], name),
                                        Child(h[newParent], newName), now))

\* lines 658-669 of addChild keep the revisions on the graph h, whatever
\* directory, name and known inode the lookup is about
AddChildKept(h, ns) ==
    \A parent, child \in {o \in Objs : h[o].ino \in Inos /\ ns[h[o].ino] = o} :
       \A name \in Names :
          IsDir(h[parent]) =>
             RevisionKept(h, AddChildCommit(h, parent, name, child, now))

\* C39: every step of addChild, rmChild, mvChild and removeRef that changes
\* the lookupCount, the ParentSet or the children of an inode raises the
\* revision of that inode in the same locked section, and no step lowers a
\* revision: an unchanged revision means unchanged fields
C39_RevisionMarksChange ==
    [][(phase = "serving" /\ phase' = "serving") =>
          /\ RevisionKept(heap, heap')
          /\ AddChildKept(heap, nodes)
          /\ MvChildKept(heap, nodes)]_vars

\* an rmChild has unlinked a child of a restored directory: both ends of
\* the edge changed and both revisions went up
C39_Witness ==
    \E t \in Threads :
       /\ Called(t, "rmChild")
       /\ Len(stack[t]) = 1
       /\ Top(t).pc = "after"
       /\ Touched(pre[t].heap, heap, Top(t).parent)
       /\ Touched(pre[t].heap, heap, Top(t).child)
       /\ heap[Top(t).parent].revision > pre[t].heap[Top(t).parent].revision
       /\ heap[Top(t).child].revision > pre[t].heap[Top(t).child].revision

\* ---- C40
\* fuse.Status values: OK, and what a backend or the adapter answers instead
Statuses == {"OK", "ENOENT", "EIO", "ENOSYS"}

\* the return of an adapter call with a status
ReturnedStatus(t, st) ==
    [last EXCEPT ![t] = [call |-> [Top(t) EXCEPT !.ret = st], node |-> Nil,
                         ok |-> st = "OK", path |-> ""]]

\* the backend is asked only when its answer is taken as given
AskedAlways(st) == "OK"

\* b.fs.Unlink, b.fs.Rmdir, b.fs.Rename: the status st the backend answers
Asked(st) == st

\* rawBridge.Unlink and rawBridge.Rmdir, which differ in the backend call
UnlinkOrRmdir(t, fn) ==
    LET f == Top(t) IN
    /\ At(t, fn)
    /\ UNCHANGED <<restorer, table, apart, heap, allocated, root, nodes,
                   nodeCountHigh, now, mu, bmu, locking, pre>>
    /\ CASE f.pc = "entry" ->
            \* lines 272-273 (286-287): b.inode panics on an unknown node
            /\ bmu = 0
            /\ IF nodes[f.ino] = Nil
               THEN /\ status' = [status EXCEPT ![t] = "panic"]
                    /\ UNCHANGED stack
               ELSE /\ stack' = WithCall(t, [f EXCEPT !.pc = "backend",
                                                      !.parent = nodes[f.ino]],
                                         PathOfFrame(nodes[f.ino]))
                    /\ UNCHANGED status
            /\ UNCHANGED last
         [] f.pc = "backend" ->
            \* lines 275-280 (289-294)
            /\ \E st \in Statuses \ {"ENOSYS"} :
                  LET code == Asked(st) IN
                  IF code # "OK"
                  THEN /\ last' = [last EXCEPT ![t] =
                                      [call |-> [f EXCEPT !.errno = st, !.ret = code],
                                       node |-> Nil, ok |-> FALSE, path |-> ""]]
                       /\ stack' = Popped(t)
                  ELSE /\ stack' = WithCall(t, [f EXCEPT !.pc = "ret", !.errno = st],
                                            [Frame0 EXCEPT !.fn = "rmChild",
                                                           !.pc = "entry",
                                                           !.parent = f.parent,
                                                           !.name = f.name])
                       /\ UNCHANGED last
            /\ UNCHANGED status
         [] f.pc = "ret" ->
            \* line 281 (295)
            /\ last' = ReturnedStatus(t, "OK")
            /\ stack' = Popped(t)
            /\ UNCHANGED status

Unlink(t) == UnlinkOrRmdir(t, "Unlink")

Rmdir(t) == UnlinkOrRmdir(t, "Rmdir")

\* rawBridge.Rename
Rename(t) ==
    LET f == Top(t) IN
    /\ At(t, "Rename")
    /\ UNCHANGED <<restorer, table, apart, heap, allocated, root, nodes,
                   nodeCountHigh, now, mu, bmu, locking, pre>>
    /\ CASE f.pc = "entry" ->
            \* lines 301-309
            /\ IF f.flags # 0
               THEN /\ last' = ReturnedStatus(t, "ENOSYS")
                    /\ stack' = Popped(t)
                    /\ UNCHANGED status
               ELSE /\ bmu = 0
                    /\ IF nodes[f.ino] = Nil
                       THEN /\ status' = [status EXCEPT ![t] = "panic"]
                            /\ UNCHANGED stack
                       ELSE /\ stack' = WithCall(t, [f EXCEPT !.pc = "newdir",
                                                      !.parent = nodes[f.ino]],
                                                 PathOfFrame(nodes[f.ino]))
                            /\ UNCHANGED status
                    /\ UNCHANGED last
         [] f.pc = "newdir" ->
            \* lines 311-312
            /\ bmu = 0
            /\ IF nodes[f.newIno] = Nil
               THEN /\ status' = [status EXCEPT ![t] = "panic"]
                    /\ UNCHANGED stack
               ELSE /\ stack' = WithCall(t, [f EXCEPT !.pc = "backend",
                                                      !.newParent = nodes[f.newIno]],
                                         PathOfFrame(nodes[f.newIno]))
                    /\ UNCHANGED status
            /\ UNCHANGED last
         [] f.pc = "backend" ->
            \* lines 314-319
            /\ \E st \in Statuses \ {"ENOSYS"} :
                  LET code == Asked(st) IN
                  IF code # "OK"
                  THEN /\ last' = [last EXCEPT ![t] =
                                      [call |-> [f EXCEPT !.errno = st, !.ret = code],
                                       node |-> Nil, ok |-> FALSE, path |-> ""]]
                       /\ stack' = Popped(t)
                  ELSE /\ stack' = WithCall(t, [f EXCEPT !.pc = "ret", !.errno = st],
                                            [Frame0 EXCEPT !.fn = "mvChild",
                                                           !.pc = "entry",
                                                           !.parent = f.parent,
                                                           !.name = f.name,
                                                           !.newParent = f.newParent,
                                                           !.newName = f.newName,
                                                           !.overwrite = TRUE])
                       /\ UNCHANGED last
            /\ UNCHANGED status
         [] f.pc = "ret" ->
            \* line 320
            /\ last' = ReturnedStatus(t, "OK")
            /\ stack' = Popped(t)
            /\ UNCHANGED status

\* the kernel unlinks names in directories
CallUnlink(t) ==
    \E ino \in Inos, name \in Names :
       /\ nodes[ino] # Nil => IsDir(heap[nodes[ino]])
       /\ Begin(t, [Frame0 EXCEPT !.fn = "Unlink", !.pc = "entry",
                                  !.ino = ino, !.name = name])

CallRmdir(t) ==
    \E ino \in Inos, name \in Names :
       /\ nodes[ino] # Nil => IsDir(heap[nodes[ino]])
       /\ Begin(t, [Frame0 EXCEPT !.fn = "Rmdir", !.pc = "entry",
                                  !.ino = ino, !.name = name])

\* the kernel renames between directories; input.Flags is 0 or not
CallRename(t) ==
    \E ino, newIno \in Inos, name, newName \in Names, flags \in 0..1 :
       /\ nodes[ino] # Nil => IsDir(heap[nodes[ino]])
       /\ nodes[newIno] # Nil => IsDir(heap[nodes[newIno]])
       /\ Begin(t, [Frame0 EXCEPT !.fn = "Rename", !.pc = "entry",
                                  !.ino = ino, !.name = name,
                                  !.newIno = newIno, !.newName = newName,
                                  !.flags = flags])

\* one goroutine serves Unlink, Rmdir and Rename requests on the graph
\* NewPathFS built or on a graph a restore built
AdapterNext ==
    \/ Restore \/ AddInode \/ Finished
    \/ CallUnlink(1) \/ Unlink(1)
    \/ CallRmdir(1) \/ Rmdir(1)
    \/ CallRename(1) \/ Rename(1)
    \/ PathOf(1) \/ RmChild(1) \/ MvChild(1)
    \/ Acquire(1)

AdapterSpec == SeqInit /\ [][AdapterNext]_vars

\* C40: an Unlink, Rmdir or Rename whose backend call answered a status
\* other than OK has returned that status with nodes, children, ParentSets
\* and lookupCounts as they were at the call, and rmChild or mvChild runs
\* only inside a call whose backend answered OK
C40_BackendStatusReturned ==
    \A t \in Threads :
       /\ (stack[t] = << >> /\ last[t].call.fn \in {"Unlink", "Rmdir", "Rename"}
             /\ last[t].call.errno # "" /\ last[t].call.errno # "OK") =>
             /\ last[t].call.ret = last[t].call.errno
             /\ nodes = pre[t].nodes
             /\ heap = pre[t].heap
       /\ (stack[t] # << >> /\ stack[t][1].fn \in {"Unlink", "Rmdir", "Rename"}) =>
             \A i \in 2..Len(stack[t]) :
                stack[t][i].fn \in {"rmChild", "mvChild"} =>
                   stack[t][1].errno = "OK"

\* the backend refused to unlink a name that the graph holds, and Unlink
\* has returned
C40_Witness ==
    \E t \in Threads :
       /\ Ret(t, "Unlink")
       /\ last[t].call.errno = "EIO"
       /\ last[t].call.ret = "EIO"
       /\ Child(heap[last[t].call.parent], last[t].call.name) # Nil

====
